---- MODULE Spec2Model ----
(***************************************************************************)
(* A model of vecrec/shapes.py: the coercion functions                     *)
(* (cast_anything_to_vector, cast_anything_to_rectangle,                   *)
(* cast_shape_to_rectangle), the overloaded Vector operators and named     *)
(* Vector mutators, and the Rect mutators and predicates.                  *)
(*                                                                         *)
(* Python values are records tagged by "cls".  Numbers are rationals n/d   *)
(* in lowest terms: exact ones (Python's ints and the halves that true     *)
(* division produces) and floats, whose arithmetic rounds to Precision     *)
(* significant bits; None is the one non-numeric scalar.  An object has an *)
(* identity, and a copy another one.  A call is one action:                *)
(* it reads the receiver and the arguments, and leaves the outcome (a      *)
(* returned value or the raised exception) in res and the receiver as the  *)
(* code leaves it.                                                         *)
(***************************************************************************)
EXTENDS Integers, Sequences, FiniteSets, TLC

VARIABLES
    v,      \* the receiver Vector: its _x and _y
    r,      \* the receiver Rect: its _left, _bottom, _width, _height
    pc,     \* "ready": the caller is about to call; "done": a call returned or raised
    op,     \* the name of the last call
    args,   \* the arguments of the last call
    res,    \* the outcome of the last call: [err, val]
    old,    \* the caller's objects as they were when the last call was made
    kept    \* the other object the caller holds after a copy, None before one

vars == <<v, r, pc, op, args, res, old, kept>>

----------------------------------------------------------------------------
(* Bounds of the model *)

\* operand coordinates and scalars are the integers 0..MaxNum
MaxNum == 2
\* a call is explored only while every number it stores has |numerator| <= MaxMag
MaxMag == 4
\* ... and denominator <= MaxDen
MaxDen == 2
\* a call is explored only while left and bottom of the Rect receiver are
\* within 0..MaxRect
MaxRect == 2
\* ... and its width and height within -MaxNeg..MaxRect (fractions are
\* explored on the horizontal axis: bottom and height stay whole numbers)
MaxNeg == 1
\* the significand of a float has Precision bits (53 in Python's binary64)
Precision == 2
\* the free function interpolate is asked for up to MaxPoints points
MaxPoints == 3

----------------------------------------------------------------------------
(* Numbers *)

Abs(i) == IF i < 0 THEN -i ELSE i

RECURSIVE Gcd(_, _)
Gcd(a, b) == IF b = 0 THEN a ELSE Gcd(b, a % b)

\* the rational n/d (d # 0) in lowest terms with a positive denominator
Num(n, d) ==
    LET g == Gcd(Abs(n), Abs(d))
        s == IF d < 0 THEN -1 ELSE 1
    IN  [t |-> "num", n |-> (s * n) \div g, d |-> (s * d) \div g]

Whole(i) == [t |-> "num", n |-> i, d |-> 1]

None == [t |-> "none", n |-> 0, d |-> 1]

IsNum(a) == a.t \in {"num", "float"}

\* floor(n/d) for d # 0
Floor(n, d) == IF d < 0 THEN (-n) \div (-d) ELSE n \div d

RECURSIVE IntPow(_, _)
IntPow(b, e) == IF e = 0 THEN 1 ELSE b * IntPow(b, e - 1)

\* the outcome of an expression: a value, or the exception it raises
Ok(val) == [err |-> "", val |-> val]
Raise(e) == [err |-> e, val |-> None]

\* Python's a == b on scalars (None equals only None; an int and a float
\* are equal when their values are)
PyEq(a, b) == IF IsNum(a) /\ IsNum(b) THEN a.n = b.n /\ a.d = b.d ELSE a = b

\* The numbers tagged "num" are those whose arithmetic is exact in the
\* explored range: ints, and the halves that int / int gives.  A number
\* tagged "float" stands for a float in general: the result of an operation
\* on it is rounded to the nearest number with a significand of Precision
\* bits, ties to even, as the floating-point operations of Python are.

\* the nearest float to a/b, for a > 0 and b > 0
RECURSIVE Nearest(_, _)
Nearest(a, b) ==
    IF a >= IntPow(2, Precision) * b
    THEN LET Twice(h) == [n |-> 2 * h.n, d |-> h.d] IN Twice(Nearest(a, 2 * b))
    ELSE IF a < IntPow(2, Precision - 1) * b
    THEN LET Half(h) == [n |-> h.n, d |-> 2 * h.d] IN Half(Nearest(2 * a, b))
    ELSE LET q == a \div b
             rest == a % b
         IN  [n |-> IF 2 * rest > b \/ (2 * rest = b /\ q % 2 = 1) THEN q + 1 ELSE q,
              d |-> 1]

\* the float nearest to the number a
Float(a) ==
    IF a.n = 0 THEN [t |-> "float", n |-> 0, d |-> 1]
    ELSE LET Signed(h) ==
                 [Num(IF a.n < 0 THEN -h.n ELSE h.n, h.d) EXCEPT !.t = "float"]
         IN  Signed(Nearest(Abs(a.n), a.d))

\* the result of an operation on a and b: rounded when an operand is a float
Rounded(a, b, exact) ==
    IF exact.err # "" \/ (a.t = "num" /\ b.t = "num") THEN exact
    ELSE Ok(Float(exact.val))

\* operator.add, sub, mul, truediv, floordiv, mod, pow on two scalars.
\* A power with a fractional exponent is in general irrational: it is
\* outside the numbers of the model ("Unrepresentable").
PyArith(f, a, b) ==
    IF ~IsNum(a) \/ ~IsNum(b) THEN Raise("TypeError")
    ELSE Rounded(a, b,
         CASE f = "add" -> Ok(Num(a.n * b.d + b.n * a.d, a.d * b.d))
           [] f = "sub" -> Ok(Num(a.n * b.d - b.n * a.d, a.d * b.d))
           [] f = "mul" -> Ok(Num(a.n * b.n, a.d * b.d))
           [] f = "truediv" ->
                IF b.n = 0 THEN Raise("ZeroDivisionError")
                ELSE Ok(Num(a.n * b.d, a.d * b.n))
           [] f = "floordiv" ->
                IF b.n = 0 THEN Raise("ZeroDivisionError")
                ELSE Ok(Whole(Floor(a.n * b.d, a.d * b.n)))
           [] f = "mod" ->
                IF b.n = 0 THEN Raise("ZeroDivisionError")
                ELSE LET q == Floor(a.n * b.d, a.d * b.n)
                     IN  Ok(Num(a.n * b.d - q * b.n * a.d, a.d * b.d))
           [] f = "pow" ->
                IF b.d # 1 THEN Raise("Unrepresentable")
                ELSE IF b.n >= 0 THEN Ok(Num(IntPow(a.n, b.n), IntPow(a.d, b.n)))
                ELSE IF a.n = 0 THEN Raise("ZeroDivisionError")
                ELSE Ok(Num(IntPow(a.d, -b.n), IntPow(a.n, -b.n))))

\* math.sqrt on a scalar; an irrational root is outside the numbers of the model
RECURSIVE IntSqrt(_, _)
IntSqrt(n, k) == IF k * k >= n THEN k ELSE IntSqrt(n, k + 1)

PySqrt(a) ==
    IF ~IsNum(a) THEN Raise("TypeError")
    ELSE IF a.n < 0 THEN Raise("ValueError")
    ELSE LET p == IntSqrt(a.n, 0)
             q == IntSqrt(a.d, 0)
         IN  IF p * p = a.n /\ q * q = a.d THEN Rounded(a, a, Ok(Num(p, q)))
             ELSE Raise("Unrepresentable")

\* whether a scalar is within the explored range
InRange(a) == IsNum(a) => (Abs(a.n) <= MaxMag /\ a.d <= MaxDen)

----------------------------------------------------------------------------
(* Python objects *)

\* identities: a freshly constructed object, the receivers, an operand
NewId == "new"
SelfId == "self"
OtherId == "other"

Scalar(a) == [cls |-> "scalar", val |-> a]
Bool(b) == [cls |-> "bool", b |-> b]
PyNone == Scalar(None)

\* Vector.__init__: stores whatever it is given
Vector(x, y) == [cls |-> "Vector", id |-> NewId, x |-> x, y |-> y]

\* Rect.__init__
Rect(left, bottom, width, height) ==
    [cls |-> "Rect", id |-> NewId, left |-> left, bottom |-> bottom,
     width |-> width, height |-> height]

\* any other object: a tuple or list (iter, elems) and/or a plain object
\* with attributes (attrs: a function from attribute names to values)
NoAttrs == [a \in {} |-> None]
Object(iter, elems, attrs) ==
    [cls |-> "object", iter |-> iter, elems |-> elems, attrs |-> attrs]
Tuple(elems) == Object(TRUE, elems, NoAttrs)
XY(x, y) == Object(FALSE, <<>>, [a \in {"x", "y"} |-> IF a = "x" THEN x ELSE y])
ShapeLike(left, bottom, width, height) ==
    Object(FALSE, <<>>, [a \in {"left", "bottom", "width", "height"} |->
        CASE a = "left" -> left [] a = "bottom" -> bottom
          [] a = "width" -> width [] a = "height" -> height])
\* a list of objects (the argument of set_vertices)
List(items) == [cls |-> "list", items |-> items]

\* hasattr(o, a) for the attributes the coercions read
HasAttr(o, a) ==
    CASE o.cls = "Vector" -> a \in {"x", "y"}
      [] o.cls = "Rect" -> a \in {"left", "bottom", "width", "height"}
      [] o.cls = "object" -> a \in DOMAIN o.attrs
      [] OTHER -> FALSE

\* getattr(o, a), where hasattr(o, a)
GetAttr(o, a) ==
    CASE o.cls = "Vector" -> IF a = "x" THEN o.x ELSE o.y
      [] o.cls = "Rect" ->
            (CASE a = "left" -> o.left [] a = "bottom" -> o.bottom
               [] a = "width" -> o.width [] a = "height" -> o.height)
      [] o.cls = "object" -> o.attrs[a]

\* whether iter(o) succeeds, and what it yields
Iterable(o) ==
    CASE o.cls = "Vector" -> TRUE
      [] o.cls = "object" -> o.iter
      [] o.cls = "list" -> TRUE
      [] OTHER -> FALSE

Elems(o) ==
    CASE o.cls = "Vector" -> <<o.x, o.y>>
      [] o.cls = "list" -> o.items
      [] OTHER -> o.elems

\* the outcome of a call that returns or raises an object
Return(val) == [err |-> "", val |-> val]
Throw(e) == [err |-> e, val |-> PyNone]

----------------------------------------------------------------------------
(* Utility functions: the coercions *)

\* a buggy variant: the Vector branch copies instead of returning its input
cast_anything_to_vector_copying(input) ==
    IF Iterable(input) /\ Len(Elems(input)) = 2
    THEN Return(Vector(Elems(input)[1], Elems(input)[2]))
    ELSE IF HasAttr(input, "x") /\ HasAttr(input, "y")
    THEN Return(Vector(GetAttr(input, "x"), GetAttr(input, "y")))
    ELSE Throw("VectorCastError")

\* a buggy variant: the elements must be numbers
cast_anything_to_vector_numeric(input) ==
    IF input.cls = "Vector" THEN Return(input)
    ELSE IF Iterable(input) /\ Len(Elems(input)) = 2
            /\ IsNum(Elems(input)[1]) /\ IsNum(Elems(input)[2])
    THEN Return(Vector(Elems(input)[1], Elems(input)[2]))
    ELSE IF HasAttr(input, "x") /\ HasAttr(input, "y")
            /\ IsNum(GetAttr(input, "x")) /\ IsNum(GetAttr(input, "y"))
    THEN Return(Vector(GetAttr(input, "x"), GetAttr(input, "y")))
    ELSE Throw("VectorCastError")

\* cast_anything_to_vector: a Vector is returned as it is; Vector(*input)
\* succeeds for an iterable of exactly two elements; Vector(input.x, input.y)
\* for an object with both attributes; the bare excepts swallow every failure
cast_anything_to_vector(input) ==
    IF input.cls = "Vector" THEN Return(input)
    ELSE IF Iterable(input) /\ Len(Elems(input)) = 2
    THEN Return(Vector(Elems(input)[1], Elems(input)[2]))
    ELSE IF HasAttr(input, "x") /\ HasAttr(input, "y")
    THEN Return(Vector(GetAttr(input, "x"), GetAttr(input, "y")))
    ELSE Throw("VectorCastError")

\* Rect.from_shape: reads bottom, left, width, height
Rect_from_shape(shape) ==
    IF \A a \in {"bottom", "left", "width", "height"} : HasAttr(shape, a)
    THEN Return(Rect(GetAttr(shape, "left"), GetAttr(shape, "bottom"),
                     GetAttr(shape, "width"), GetAttr(shape, "height")))
    ELSE Throw("AttributeError")

\* Rect.from_vector: a rectangle of no area at the position
Rect_from_vector(position) ==
    LET c == cast_anything_to_vector(position)
    IN  IF c.err # "" THEN c
        ELSE Return(Rect(c.val.x, c.val.y, Whole(0), Whole(0)))

\* a buggy variant: a vector-like value is taken as a shape of no area
cast_shape_to_rectangle_lenient(input) ==
    IF input.cls = "Rect" THEN Return(input)
    ELSE IF Rect_from_shape(input).err = "" THEN Rect_from_shape(input)
    ELSE IF Rect_from_vector(input).err = "" THEN Rect_from_vector(input)
    ELSE Throw("RectCastError")

\* cast_shape_to_rectangle
cast_shape_to_rectangle(input) ==
    IF input.cls = "Rect" THEN Return(input)
    ELSE IF Rect_from_shape(input).err = "" THEN Rect_from_shape(input)
    ELSE Throw("RectCastError")

\* a buggy variant: the vector coercion's own exception escapes
cast_anything_to_rectangle_leaking(input) ==
    IF cast_shape_to_rectangle(input).err = "" THEN cast_shape_to_rectangle(input)
    ELSE Rect_from_vector(input)

\* cast_anything_to_rectangle
cast_anything_to_rectangle(input) ==
    IF cast_shape_to_rectangle(input).err = "" THEN cast_shape_to_rectangle(input)
    ELSE IF Rect_from_vector(input).err = "" THEN Rect_from_vector(input)
    ELSE Throw("RectCastError")

----------------------------------------------------------------------------
(* Vector *)

\* the outcome of a method: what it returns or raises, and the receiver as
\* the method leaves it
MReturn(val, self) == [err |-> "", val |-> val, self |-> self]
MThrow(e, self) == [err |-> e, val |-> PyNone, self |-> self]

\* the operand of f when it is used as a scalar: an object that is no number
\* supports none of the operators against a number
AsScalar(other) == IF other.cls = "scalar" THEN other.val ELSE None

\* other == 0
EqualsZero(other) == other.cls = "scalar" /\ PyEq(other.val, Whole(0))

\* Vector(fx, fy) where fx and fy are the outcomes of the two coordinates,
\* evaluated in this order
VectorOf(fx, fy) ==
    IF fx.err # "" THEN Throw(fx.err)
    ELSE IF fy.err # "" THEN Throw(fy.err)
    ELSE Return(Vector(fx.val, fy.val))

\* a buggy variant: the arithmetic on the coerced operand is inside the try,
\* so its failure is swallowed and the operand is taken as a scalar
overload_left_side_swallowing(f, scalar_ok, self, other) ==
    LET Go(c, made) ==
            IF c.err = "" /\ made.err = "" THEN made
            ELSE IF EqualsZero(other) \/ scalar_ok
            THEN VectorOf(PyArith(f, self.x, AsScalar(other)),
                          PyArith(f, self.y, AsScalar(other)))
            ELSE Throw("VectorCastError")
        Try(c) ==
            Go(c, IF c.err # "" THEN c
                  ELSE VectorOf(PyArith(f, self.x, c.val.x), PyArith(f, self.y, c.val.y)))
    IN  Try(cast_anything_to_vector(other))

\* _overload_left_side(f, scalar_ok): self <f> other
overload_left_side(f, scalar_ok, self, other) ==
    LET Go(c) ==
            IF c.err = ""
            THEN VectorOf(PyArith(f, self.x, c.val.x), PyArith(f, self.y, c.val.y))
            ELSE IF EqualsZero(other) \/ scalar_ok
            THEN VectorOf(PyArith(f, self.x, AsScalar(other)),
                          PyArith(f, self.y, AsScalar(other)))
            ELSE Throw("VectorCastError")
    IN  Go(cast_anything_to_vector(other))

\* a buggy variant: the reflected form computes self <f> other
overload_right_side_unswapped(f, scalar_ok, self, other) ==
    overload_left_side(f, scalar_ok, self, other)

\* _overload_right_side(f, scalar_ok): other <f> self
overload_right_side(f, scalar_ok, self, other) ==
    LET Go(c) ==
            IF c.err = ""
            THEN VectorOf(PyArith(f, c.val.x, self.x), PyArith(f, c.val.y, self.y))
            ELSE IF EqualsZero(other) \/ scalar_ok
            THEN VectorOf(PyArith(f, AsScalar(other), self.x),
                          PyArith(f, AsScalar(other), self.y))
            ELSE Throw("VectorCastError")
    IN  Go(cast_anything_to_vector(other))

\* self.x, self.y = fx, fy: both right-hand sides are evaluated before
\* either coordinate is stored, and the operator returns self
StoreBoth(self, fx, fy) ==
    IF fx.err # "" THEN MThrow(fx.err, self)
    ELSE IF fy.err # "" THEN MThrow(fy.err, self)
    ELSE MReturn([self EXCEPT !.x = fx.val, !.y = fy.val],
                 [self EXCEPT !.x = fx.val, !.y = fy.val])

\* _overload_in_place(f, scalar_ok): self <f>= other
overload_in_place(f, scalar_ok, self, other) ==
    LET Go(c) ==
            IF c.err = ""
            THEN StoreBoth(self, PyArith(f, self.x, c.val.x),
                                 PyArith(f, self.y, c.val.y))
            ELSE IF EqualsZero(other) \/ scalar_ok
            THEN StoreBoth(self, PyArith(f, self.x, AsScalar(other)),
                                 PyArith(f, self.y, AsScalar(other)))
            ELSE MThrow("VectorCastError", self)
    IN  Go(cast_anything_to_vector(other))

\* the operators of Vector and whether each takes a scalar (scalar_ok)
Operators == {"add", "sub", "mul", "floordiv", "truediv", "mod", "pow"}

\* a buggy variant: every operator takes a scalar
ScalarOk_always(f) == TRUE

\* scalar_ok is passed for every operator but + and -
ScalarOk(f) == f \notin {"add", "sub"}

\* a <f> b of two outcomes, a evaluated first
ArithOf(f, a, b) ==
    IF a.err # "" THEN a
    ELSE IF b.err # "" THEN b
    ELSE PyArith(f, a.val, b.val)

\* Vector.get_magnitude_squared: self.x**2 + self.y**2
get_magnitude_squared(self) ==
    ArithOf("add", PyArith("pow", self.x, Whole(2)), PyArith("pow", self.y, Whole(2)))

\* Vector.get_magnitude: math.sqrt(self.magnitude_squared)
get_magnitude(self) ==
    LET Go(m) == IF m.err # "" THEN m ELSE PySqrt(m.val)
    IN  Go(get_magnitude_squared(self))

\* a buggy variant: the ZeroDivisionError is not caught
normalize_unguarded(self) ==
    LET Divided(d) == IF d.err # "" THEN d ELSE MReturn(PyNone, d.self)
        Go(m) ==
            IF m.err # "" THEN MThrow(m.err, self)
            ELSE Divided(overload_in_place("truediv", TRUE, self, Scalar(m.val)))
    IN  Go(get_magnitude(self))

\* Vector.normalize: self /= self.magnitude, a ZeroDivisionError becoming
\* NullVectorError
normalize(self) ==
    LET Divided(d) ==
            IF d.err = "ZeroDivisionError" THEN MThrow("NullVectorError", self)
            ELSE IF d.err # "" THEN d
            ELSE MReturn(PyNone, d.self)
        Go(m) ==
            IF m.err # "" THEN MThrow(m.err, self)
            ELSE Divided(overload_in_place("truediv", TRUE, self, Scalar(m.val)))
    IN  Go(get_magnitude(self))

\* Vector.scale: self.normalize(); self *= magnitude
scale(self, magnitude) ==
    LET Multiplied(m) == IF m.err # "" THEN m ELSE MReturn(PyNone, m.self)
        Go(n) ==
            IF n.err # "" THEN n
            ELSE Multiplied(overload_in_place("mul", TRUE, n.self, magnitude))
    IN  Go(normalize(self))

\* Vector.set_magnitude: an alias for scale
set_magnitude(self, magnitude) == scale(self, magnitude)

\* a buggy variant: the vector is moved by extent * target
interpolate_absolute(self, target, extent) ==
    LET Added(a) == IF a.err # "" THEN a ELSE MReturn(PyNone, a.self)
        Stepped(step) ==
            IF step.err # "" THEN MThrow(step.err, self)
            ELSE Added(overload_in_place("add", FALSE, self, step.val))
        Go(c) ==
            IF c.err # "" THEN MThrow(c.err, self)
            ELSE Stepped(overload_right_side("mul", TRUE, c.val, extent))
    IN  Go(cast_anything_to_vector(target))

\* Vector.interpolate: target = cast_anything_to_vector(target);
\* self += extent * (target - self)
interpolate(self, target, extent) ==
    LET Added(a) == IF a.err # "" THEN a ELSE MReturn(PyNone, a.self)
        Stepped(step) ==
            IF step.err # "" THEN MThrow(step.err, self)
            ELSE Added(overload_in_place("add", FALSE, self, step.val))
        Differed(diff) ==
            IF diff.err # "" THEN MThrow(diff.err, self)
            ELSE Stepped(overload_right_side("mul", TRUE, diff.val, extent))
        Go(c) ==
            IF c.err # "" THEN MThrow(c.err, self)
            ELSE Differed(overload_left_side("sub", FALSE, c.val, self))
    IN  Go(cast_anything_to_vector(target))

\* Vector.assign (behind accept_anything_as_vector):
\* self._x, self._y = other.tuple
assign(self, input) ==
    LET Go(c) ==
            IF c.err # "" THEN MThrow(c.err, self)
            ELSE MReturn(PyNone, [self EXCEPT !.x = c.val.x, !.y = c.val.y])
    IN  Go(cast_anything_to_vector(input))

\* Vector.dot_product: self.x * other.x + self.y * other.y
dot_product(self, other) ==
    ArithOf("add", PyArith("mul", self.x, other.x), PyArith("mul", self.y, other.y))

\* Vector.get_projection (behind accept_anything_as_vector):
\* scale = axis.dot(self) / axis.dot(axis); return axis * scale
get_projection(self, input) ==
    LET Scaled(axis, s) ==
            IF s.err # "" THEN Throw(s.err)
            ELSE overload_left_side("mul", TRUE, axis, Scalar(s.val))
        Go(c) ==
            IF c.err # "" THEN c
            ELSE Scaled(c.val, ArithOf("truediv", dot_product(c.val, self),
                                                   dot_product(c.val, c.val)))
    IN  Go(cast_anything_to_vector(input))

\* Vector.get_components (behind accept_anything_as_vector):
\* tangent = self.get_projection(other); normal = self - tangent;
\* return normal, tangent
get_components(self, input) ==
    LET Both(normal, tangent) ==
            IF normal.err # "" THEN normal ELSE Return(Tuple(<<normal.val, tangent>>))
        Go(t) ==
            IF t.err # "" THEN t
            ELSE Both(overload_left_side("sub", FALSE, self, t.val), t.val)
    IN  Go(get_projection(self, input))

\* Vector.project (behind accept_anything_as_vector):
\* self.assign(self.get_projection(axis))
project(self, input) ==
    LET Go(p) == IF p.err # "" THEN MThrow(p.err, self) ELSE assign(self, p.val)
    IN  Go(get_projection(self, input))

\* Vector.set_tuple: self._x, self._y = xy
set_tuple(self, xy) ==
    IF ~Iterable(xy) THEN MThrow("TypeError", self)
    ELSE IF Len(Elems(xy)) # 2 THEN MThrow("ValueError", self)
    ELSE MReturn(PyNone, [self EXCEPT !.x = Elems(xy)[1], !.y = Elems(xy)[2]])

\* a buggy variant: the VectorCastError is not caught
Vector_eq_raising(self, other) ==
    LET Go(c) ==
            IF c.err # "" THEN c
            ELSE Return(Bool(PyEq(self.x, c.val.x) /\ PyEq(self.y, c.val.y)))
    IN  Go(cast_anything_to_vector(other))

\* Vector.__eq__: a VectorCastError means not equal
Vector_eq(self, other) ==
    LET Go(c) ==
            IF c.err = "VectorCastError" THEN Return(Bool(FALSE))
            ELSE Return(Bool(PyEq(self.x, c.val.x) /\ PyEq(self.y, c.val.y)))
    IN  Go(cast_anything_to_vector(other))

\* a buggy variant: the negation is missing
Vector_ne_same(self, other) == Vector_eq(self, other)

\* Vector.__ne__: not self.__eq__(other)
Vector_ne(self, other) ==
    LET Go(e) == IF e.err # "" THEN e ELSE Return(Bool(~e.val.b))
    IN  Go(Vector_eq(self, other))

\* accept_anything_as_vector: one positional argument is the input itself,
\* several are the tuple of them
accept_anything_as_vector(input) ==
    cast_anything_to_vector(
        IF Len(input) = 1 THEN input[1]
        ELSE Tuple([i \in 1..Len(input) |-> AsScalar(input[i])]))

\* a buggy variant: the receiver itself is handed back
copy_aliasing(self) == self

\* Vector.copy, Rect.copy: deepcopy(self)
copy(self) == [self EXCEPT !.id = NewId]

\* a buggy variant: the receiver itself is normalized and handed back
get_unit_in_place(self) ==
    LET Go(n) == IF n.err # "" THEN Throw(n.err) ELSE Return(n.self)
    IN  Go(normalize(self))

\* Vector.get_unit: result = self.copy(); result.normalize(); return result
get_unit(self) ==
    LET Go(n) == IF n.err # "" THEN Throw(n.err) ELSE Return(n.self)
    IN  Go(normalize(copy(self)))

\* Vector.from_anything: return cast_anything_to_vector(input)
Vector_from_anything(input) == cast_anything_to_vector(input)

\* a buggy variant: the receiver itself is interpolated and handed back
get_interpolated_in_place(self, target, extent) ==
    LET Go(m) == IF m.err # "" THEN Throw(m.err) ELSE Return(m.self)
    IN  Go(interpolate(self, target, extent))

\* Vector.get_interpolated: result = self.copy();
\* result.interpolate(target, extent); return result
get_interpolated(self, target, extent) ==
    LET Go(m) == IF m.err # "" THEN Throw(m.err) ELSE Return(m.self)
    IN  Go(interpolate(copy(self), target, extent))

\* the loop of the free function interpolate, from step on:
\* for step in range(1, steps): append a.get_interpolated(b, step/steps);
\* then append b
RECURSIVE Interpolation(_, _, _, _)
Interpolation(a, b, steps, step) ==
    IF step >= steps THEN Return(<<b>>)
    ELSE LET Appended(p, rest) ==
                 IF p.err # "" THEN p
                 ELSE IF rest.err # "" THEN rest
                 ELSE Return(<<p.val>> \o rest.val)
             Go(extent) ==
                 Appended(get_interpolated(a, b, Scalar(extent.val)),
                          Interpolation(a, b, steps, step + 1))
         IN  Go(PyArith("truediv", Whole(step), Whole(steps)))

\* the free function interpolate(a, b, num_points): a and b are coerced,
\* interpolation = [a]; steps = num_points - 1; assert steps >= 0; the loop
free_interpolate(a, b, num_points) ==
    LET Listed(ca, points) ==
            IF points.err # "" THEN points ELSE Return(List(<<ca>> \o points.val))
        Counted(ca, cb, steps) ==
            IF steps.err # "" THEN Throw(steps.err)
            ELSE IF steps.val.n < 0 THEN Throw("AssertionError")
            ELSE Listed(ca, Interpolation(ca, cb, steps.val.n, 1))
        Go(ca, cb) ==
            IF ca.err # "" THEN ca
            ELSE IF cb.err # "" THEN cb
            ELSE Counted(ca.val, cb.val, PyArith("sub", AsScalar(num_points), Whole(1)))
    IN  Go(cast_anything_to_vector(a), cast_anything_to_vector(b))

\* Vector.get_orthogonal: Vector(-self.y, self.x)
get_orthogonal(self) == VectorOf(PyArith("sub", Whole(0), self.y), Ok(self.x))

\* Vector.get_orthonormal: self.orthogonal.unit
get_orthonormal(self) ==
    LET Go(o) == IF o.err # "" THEN o ELSE get_unit(o.val)
    IN  Go(get_orthogonal(self))

\* Vector.get_scaled: result = self.copy(); result.scale(magnitude); return result
get_scaled(self, magnitude) ==
    LET Go(n) == IF n.err # "" THEN Throw(n.err) ELSE Return(n.self)
    IN  Go(scale(copy(self), magnitude))

\* Vector.__bool__: self != (0, 0)
Vector_bool(self) == Vector_ne(self, Tuple(<<Whole(0), Whole(0)>>))

\* math.atan2(y, x): 0.0 on the positive x axis and at the origin; any
\* other angle is outside the numbers of the model
PyAtan2(y, x) ==
    IF ~IsNum(y) \/ ~IsNum(x) THEN Raise("TypeError")
    ELSE IF y.n = 0 /\ x.n >= 0 THEN Ok(Float(Whole(0)))
    ELSE Raise("Unrepresentable")

\* Vector.get_radians: if not self: raise NullVectorError();
\* return math.atan2(self.y, self.x)
get_radians(self) ==
    LET Go(b) ==
            IF b.err # "" THEN Raise(b.err)
            ELSE IF ~b.val.b THEN Raise("NullVectorError")
            ELSE PyAtan2(self.y, self.x)
    IN  Go(Vector_bool(self))

\* Vector.get_degrees: self.radians * 180 / math.pi
get_degrees(self) ==
    LET Go(a) ==
            IF a.err # "" THEN a
            ELSE IF a.val.n = 0 THEN Ok(Float(Whole(0)))
            ELSE Raise("Unrepresentable")
    IN  Go(get_radians(self))

\* Vector.get_radians_to (behind accept_anything_as_vector):
\* other.radians - self.radians
get_radians_to(self, input) ==
    LET Go(c) ==
            IF c.err # "" THEN Raise(c.err)
            ELSE ArithOf("sub", get_radians(c.val), get_radians(self))
    IN  Go(accept_anything_as_vector(input))

\* Vector.get_degrees_to (behind accept_anything_as_vector):
\* other.degrees - self.degrees
get_degrees_to(self, input) ==
    LET Go(c) ==
            IF c.err # "" THEN Raise(c.err)
            ELSE ArithOf("sub", get_degrees(c.val), get_degrees(self))
    IN  Go(accept_anything_as_vector(input))

----------------------------------------------------------------------------
(* Rect *)

\* a < b, a <= b, a > b, a >= b on two scalars
PyCompare(rel, a, b) ==
    IF ~IsNum(a) \/ ~IsNum(b) THEN [err |-> "TypeError", val |-> FALSE]
    ELSE [err |-> "",
          val |-> CASE rel = "lt" -> a.n * b.d < b.n * a.d
                    [] rel = "le" -> a.n * b.d <= b.n * a.d
                    [] rel = "gt" -> a.n * b.d > b.n * a.d
                    [] rel = "ge" -> a.n * b.d >= b.n * a.d]

\* min (rel = "lt") and max (rel = "gt") of a generator: each item is
\* evaluated and then compared with the best so far
RECURSIVE Best(_, _, _, _)
Best(rel, outs, i, acc) ==
    IF i > Len(outs) THEN Ok(acc)
    ELSE IF outs[i].err # "" THEN outs[i]
    ELSE LET Go(c) ==
                 IF c.err # "" THEN Raise(c.err)
                 ELSE Best(rel, outs, i + 1, IF c.val THEN outs[i].val ELSE acc)
         IN  Go(PyCompare(rel, outs[i].val, acc))

PyMin(outs) ==
    IF outs = <<>> THEN Raise("ValueError")
    ELSE IF outs[1].err # "" THEN outs[1]
    ELSE Best("lt", outs, 2, outs[1].val)

PyMax(outs) ==
    IF outs = <<>> THEN Raise("ValueError")
    ELSE IF outs[1].err # "" THEN outs[1]
    ELSE Best("gt", outs, 2, outs[1].val)

\* return self
ReturnSelf(m) == IF m.err # "" THEN m ELSE MReturn(m.self, m.self)

\* self._<field> = value, where value is the outcome of the right-hand side
Store(self, field, value) ==
    IF value.err # "" THEN MThrow(value.err, self)
    ELSE MReturn(PyNone, [self EXCEPT ![field] = value.val])

\* the statements self._<field> <f>= amount, one after the other from
\* statement i on; each amount is the outcome of its expression
RECURSIVE Augment(_, _, _)
Augment(self, stmts, i) ==
    IF i > Len(stmts) THEN MReturn(PyNone, self)
    ELSE LET Go(m) == IF m.err # "" THEN m ELSE Augment(m.self, stmts, i + 1)
         IN  Go(Store(self, stmts[i].field,
                      ArithOf(stmts[i].f, Ok(self[stmts[i].field]), stmts[i].amount)))

\* the scalar properties of Rect
Sides == {"left", "center_x", "right", "top", "center_y", "bottom"}

\* Rect.get_left, get_center_x, get_right, get_top, get_center_y, get_bottom,
\* get_width, get_height
get_side(self, name) ==
    CASE name = "left" -> Ok(self.left)
      [] name = "center_x" ->
            ArithOf("add", Ok(self.left), PyArith("truediv", self.width, Whole(2)))
      [] name = "right" -> PyArith("add", self.left, self.width)
      [] name = "top" -> PyArith("add", self.bottom, self.height)
      [] name = "center_y" ->
            ArithOf("add", Ok(self.bottom), PyArith("truediv", self.height, Whole(2)))
      [] name = "bottom" -> Ok(self.bottom)
      [] name = "width" -> Ok(self.width)
      [] name = "height" -> Ok(self.height)

\* a buggy variant: the centre setters store the edge, forgetting half the size
set_side_edge(self, name, x) ==
    CASE name = "left" -> Store(self, "left", Ok(x))
      [] name = "center_x" -> Store(self, "left", PyArith("sub", x, self.width))
      [] name = "right" -> Store(self, "left", PyArith("sub", x, self.width))
      [] name = "top" -> Store(self, "bottom", PyArith("sub", x, self.height))
      [] name = "center_y" -> Store(self, "bottom", PyArith("sub", x, self.height))
      [] name = "bottom" -> Store(self, "bottom", Ok(x))
      [] name = "width" -> Store(self, "width", Ok(x))
      [] name = "height" -> Store(self, "height", Ok(x))

\* a buggy variant: setting right or top keeps the opposite edge and resizes
set_side_resizing(self, name, x) ==
    CASE name = "left" -> Store(self, "left", Ok(x))
      [] name = "center_x" ->
            Store(self, "left",
                  ArithOf("sub", Ok(x), PyArith("truediv", self.width, Whole(2))))
      [] name = "right" -> Store(self, "width", PyArith("sub", x, self.left))
      [] name = "top" -> Store(self, "height", PyArith("sub", x, self.bottom))
      [] name = "center_y" ->
            Store(self, "bottom",
                  ArithOf("sub", Ok(x), PyArith("truediv", self.height, Whole(2))))
      [] name = "bottom" -> Store(self, "bottom", Ok(x))
      [] name = "width" -> Store(self, "width", Ok(x))
      [] name = "height" -> Store(self, "height", Ok(x))

\* Rect.set_left, set_center_x, set_right, set_top, set_center_y, set_bottom,
\* set_width, set_height
set_side(self, name, x) ==
    CASE name = "left" -> Store(self, "left", Ok(x))
      [] name = "center_x" ->
            Store(self, "left",
                  ArithOf("sub", Ok(x), PyArith("truediv", self.width, Whole(2))))
      [] name = "right" -> Store(self, "left", PyArith("sub", x, self.width))
      [] name = "top" -> Store(self, "bottom", PyArith("sub", x, self.height))
      [] name = "center_y" ->
            Store(self, "bottom",
                  ArithOf("sub", Ok(x), PyArith("truediv", self.height, Whole(2))))
      [] name = "bottom" -> Store(self, "bottom", Ok(x))
      [] name = "width" -> Store(self, "width", Ok(x))
      [] name = "height" -> Store(self, "height", Ok(x))

\* the statements self.<name> = x, one after the other from statement i on
RECURSIVE SetSides(_, _, _)
SetSides(self, stmts, i) ==
    IF i > Len(stmts) THEN MReturn(PyNone, self)
    ELSE LET Go(m) == IF m.err # "" THEN m ELSE SetSides(m.self, stmts, i + 1)
         IN  Go(set_side(self, stmts[i].name, stmts[i].x))

\* Rect.from_sides
Rect_from_sides(left, top, right, bottom) ==
    LET Go(width, height) ==
            IF width.err # "" THEN Throw(width.err)
            ELSE IF height.err # "" THEN Throw(height.err)
            ELSE Return(Rect(left, bottom, width.val, height.val))
    IN  Go(PyArith("sub", right, left), PyArith("sub", top, bottom))

\* [cast_shape_to_rectangle(x) for x in inputs], from position i on
RECURSIVE CastShapes(_, _)
CastShapes(inputs, i) ==
    IF i > Len(inputs) THEN [err |-> "", val |-> <<>>]
    ELSE LET Rest(c, rest) ==
                 IF rest.err # "" THEN rest
                 ELSE [err |-> "", val |-> <<c.val>> \o rest.val]
             Go(c) ==
                 IF c.err # "" THEN [err |-> c.err, val |-> <<>>]
                 ELSE Rest(c, CastShapes(inputs, i + 1))
         IN  Go(cast_shape_to_rectangle(inputs[i]))

\* x.<name> for x in rects
SidesOf(rects, name) == [i \in 1..Len(rects) |-> get_side(rects[i], name)]

\* Rect.from_sides on the outcomes of its four arguments, evaluated in the
\* order left, top, right, bottom
FromSidesOf(left, top, right, bottom) ==
    IF left.err # "" THEN Throw(left.err)
    ELSE IF top.err # "" THEN Throw(top.err)
    ELSE IF right.err # "" THEN Throw(right.err)
    ELSE IF bottom.err # "" THEN Throw(bottom.err)
    ELSE Rect_from_sides(left.val, top.val, right.val, bottom.val)

\* Rect.from_union(*inputs)
from_union(inputs) ==
    LET Go(rects) ==
            IF rects.err # "" THEN Throw(rects.err)
            ELSE FromSidesOf(PyMin(SidesOf(rects.val, "left")),
                             PyMax(SidesOf(rects.val, "top")),
                             PyMax(SidesOf(rects.val, "right")),
                             PyMin(SidesOf(rects.val, "bottom")))
    IN  Go(CastShapes(inputs, 1))

\* Rect.from_intersection(*inputs)
from_intersection(inputs) ==
    LET Go(rects) ==
            IF rects.err # "" THEN Throw(rects.err)
            ELSE FromSidesOf(PyMax(SidesOf(rects.val, "left")),
                             PyMin(SidesOf(rects.val, "top")),
                             PyMin(SidesOf(rects.val, "right")),
                             PyMax(SidesOf(rects.val, "bottom")))
    IN  Go(CastShapes(inputs, 1))

\* Rect.get_union(*rectangles), Rect.get_intersection(*rectangles)
get_union(self, rectangles) == from_union(<<self>> \o rectangles)
get_intersection(self, rectangles) == from_intersection(<<self>> \o rectangles)

\* a <rel> b of two outcomes, a evaluated first
CompareOf(rel, a, b) ==
    IF a.err # "" THEN [err |-> a.err, val |-> FALSE]
    ELSE IF b.err # "" THEN [err |-> b.err, val |-> FALSE]
    ELSE PyCompare(rel, a.val, b.val)

\* if c: return False; otherwise the rest
Unless(c, rest) ==
    IF c.err # "" THEN Throw(c.err)
    ELSE IF c.val THEN Return(Bool(FALSE))
    ELSE rest

\* c and rest
AndAlso(c, rest) ==
    IF c.err # "" THEN Throw(c.err)
    ELSE IF ~c.val THEN Return(Bool(FALSE))
    ELSE rest

\* the last operand of an and-chain
Last(c) == IF c.err # "" THEN Throw(c.err) ELSE Return(Bool(c.val))

\* a buggy variant: strict comparisons, so a shared edge does not touch
touching_strict(self, input) ==
    LET Body(other) ==
            Unless(CompareOf("le", get_side(self, "top"), get_side(other, "bottom")),
            Unless(CompareOf("ge", get_side(self, "bottom"), get_side(other, "top")),
            Unless(CompareOf("ge", get_side(self, "left"), get_side(other, "right")),
            Unless(CompareOf("le", get_side(self, "right"), get_side(other, "left")),
            Return(Bool(TRUE))))))
        Go(c) == IF c.err # "" THEN c ELSE Body(c.val)
    IN  Go(cast_anything_to_rectangle(input))

\* a buggy variant: the comparison of self.right with other.left is missing
touching_lopsided(self, input) ==
    LET Body(other) ==
            Unless(CompareOf("lt", get_side(self, "top"), get_side(other, "bottom")),
            Unless(CompareOf("gt", get_side(self, "bottom"), get_side(other, "top")),
            Unless(CompareOf("gt", get_side(self, "left"), get_side(other, "right")),
            Return(Bool(TRUE)))))
        Go(c) == IF c.err # "" THEN c ELSE Body(c.val)
    IN  Go(cast_anything_to_rectangle(input))

\* Rect.touching (behind accept_anything_as_rectangle)
touching(self, input) ==
    LET Body(other) ==
            Unless(CompareOf("lt", get_side(self, "top"), get_side(other, "bottom")),
            Unless(CompareOf("gt", get_side(self, "bottom"), get_side(other, "top")),
            Unless(CompareOf("gt", get_side(self, "left"), get_side(other, "right")),
            Unless(CompareOf("lt", get_side(self, "right"), get_side(other, "left")),
            Return(Bool(TRUE))))))
        Go(c) == IF c.err # "" THEN c ELSE Body(c.val)
    IN  Go(cast_anything_to_rectangle(input))

\* Rect.outside (behind accept_anything_as_rectangle): not self.touching(other)
outside(self, input) ==
    LET Negated(t) == IF t.err # "" THEN t ELSE Return(Bool(~t.val.b))
        Go(c) == IF c.err # "" THEN c ELSE Negated(touching(self, c.val))
    IN  Go(cast_anything_to_rectangle(input))

\* a buggy variant: open bounds, so a rectangle does not contain itself
contains_open(self, input) ==
    LET Body(other) ==
            AndAlso(CompareOf("lt", get_side(self, "left"), get_side(other, "left")),
            AndAlso(CompareOf("gt", get_side(self, "right"), get_side(other, "right")),
            AndAlso(CompareOf("gt", get_side(self, "top"), get_side(other, "top")),
            Last(CompareOf("lt", get_side(self, "bottom"), get_side(other, "bottom"))))))
        Go(c) == IF c.err # "" THEN c ELSE Body(c.val)
    IN  Go(cast_anything_to_rectangle(input))

\* Rect.contains (behind accept_anything_as_rectangle)
contains(self, input) ==
    LET Body(other) ==
            AndAlso(CompareOf("le", get_side(self, "left"), get_side(other, "left")),
            AndAlso(CompareOf("ge", get_side(self, "right"), get_side(other, "right")),
            AndAlso(CompareOf("ge", get_side(self, "top"), get_side(other, "top")),
            Last(CompareOf("le", get_side(self, "bottom"), get_side(other, "bottom"))))))
        Go(c) == IF c.err # "" THEN c ELSE Body(c.val)
    IN  Go(cast_anything_to_rectangle(input))

\* Rect.__contains__: return self.contains(other)
Rect_contains(self, other) == contains(self, other)

\* a buggy variant: behind accept_anything_as_rectangle
inside_permissive(self, input) ==
    LET Body(other) ==
            AndAlso(CompareOf("ge", get_side(self, "left"), get_side(other, "left")),
            AndAlso(CompareOf("le", get_side(self, "right"), get_side(other, "right")),
            AndAlso(CompareOf("le", get_side(self, "top"), get_side(other, "top")),
            Last(CompareOf("ge", get_side(self, "bottom"), get_side(other, "bottom"))))))
        Go(c) == IF c.err # "" THEN c ELSE Body(c.val)
    IN  Go(cast_anything_to_rectangle(input))

\* Rect.inside (behind accept_shape_as_rectangle)
inside(self, input) ==
    LET Body(other) ==
            AndAlso(CompareOf("ge", get_side(self, "left"), get_side(other, "left")),
            AndAlso(CompareOf("le", get_side(self, "right"), get_side(other, "right")),
            AndAlso(CompareOf("le", get_side(self, "top"), get_side(other, "top")),
            Last(CompareOf("ge", get_side(self, "bottom"), get_side(other, "bottom"))))))
        Go(c) == IF c.err # "" THEN c ELSE Body(c.val)
    IN  Go(cast_shape_to_rectangle(input))

\* a buggy variant: x is added to the bottom and y to the left
displace_transposed(self, input) ==
    LET Go(c) ==
            IF c.err # "" THEN MThrow(c.err, self)
            ELSE ReturnSelf(Augment(self,
                    <<[field |-> "bottom", f |-> "add", amount |-> Ok(c.val.x)],
                      [field |-> "left", f |-> "add", amount |-> Ok(c.val.y)]>>, 1))
    IN  Go(accept_anything_as_vector(input))

\* Rect.displace (behind accept_anything_as_vector):
\* self._bottom += vector.y; self._left += vector.x; return self
displace(self, input) ==
    LET Go(c) ==
            IF c.err # "" THEN MThrow(c.err, self)
            ELSE ReturnSelf(Augment(self,
                    <<[field |-> "bottom", f |-> "add", amount |-> Ok(c.val.y)],
                      [field |-> "left", f |-> "add", amount |-> Ok(c.val.x)]>>, 1))
    IN  Go(accept_anything_as_vector(input))

\* Vector.__neg__
Vector_neg(self) ==
    VectorOf(PyArith("sub", Whole(0), self.x), PyArith("sub", Whole(0), self.y))

\* Vector.__abs__: Vector(abs(self.x), abs(self.y))
Vector_abs(self) ==
    LET Of(a) == IF ~IsNum(a) THEN Raise("TypeError") ELSE Ok([a EXCEPT !.n = Abs(a.n)])
    IN  VectorOf(Of(self.x), Of(self.y))

\* Rect.__iadd__ (behind accept_anything_as_vector): self.displace(vector)
Rect_iadd(self, input) ==
    LET Go(c) == IF c.err # "" THEN MThrow(c.err, self) ELSE displace(self, <<c.val>>)
    IN  Go(accept_anything_as_vector(input))

\* Rect.__isub__ (behind accept_anything_as_vector): self.displace(-vector)
Rect_isub(self, input) ==
    LET Negated(n) == IF n.err # "" THEN MThrow(n.err, self) ELSE displace(self, <<n.val>>)
        Go(c) == IF c.err # "" THEN MThrow(c.err, self) ELSE Negated(Vector_neg(c.val))
    IN  Go(accept_anything_as_vector(input))

\* Rect.__add__ (behind accept_anything_as_vector):
\* Rect.__eq__: the four fields compare equal; False when other lacks one
Rect_eq(self, other) ==
    IF other.cls # "Rect" /\ Rect_from_shape(other).err # "" THEN Return(Bool(FALSE))
    ELSE LET Same(o) ==
                 \A f \in {"bottom", "left", "width", "height"} : PyEq(self[f], o[f])
         IN  Return(Bool(Same(IF other.cls = "Rect" THEN other ELSE Rect_from_shape(other).val)))

\* result = self.copy(); result.displace(vector); return result
Rect_add(self, input) ==
    LET Moved(m) == IF m.err # "" THEN Throw(m.err) ELSE Return(m.self)
        Go(c) == IF c.err # "" THEN Throw(c.err) ELSE Moved(displace(copy(self), <<c.val>>))
    IN  Go(accept_anything_as_vector(input))

\* Rect.__sub__ (behind accept_anything_as_vector):
\* result = self.copy(); result.displace(-vector); return result
Rect_sub(self, input) ==
    LET Moved(m) == IF m.err # "" THEN Throw(m.err) ELSE Return(m.self)
        Negated(n) ==
            IF n.err # "" THEN Throw(n.err) ELSE Moved(displace(copy(self), <<n.val>>))
        Go(c) == IF c.err # "" THEN Throw(c.err) ELSE Negated(Vector_neg(c.val))
    IN  Go(accept_anything_as_vector(input))

\* the vector properties of Rect, and the two scalar properties each is made of
Points ==
    {"top_left", "top_center", "top_right", "center_left", "center",
     "center_right", "bottom_left", "bottom_center", "bottom_right"}
Vertical(point) ==
    CASE point \in {"top_left", "top_center", "top_right"} -> "top"
      [] point \in {"center_left", "center", "center_right"} -> "center_y"
      [] point \in {"bottom_left", "bottom_center", "bottom_right"} -> "bottom"
Horizontal(point) ==
    CASE point \in {"top_left", "center_left", "bottom_left"} -> "left"
      [] point \in {"top_center", "center", "bottom_center"} -> "center_x"
      [] point \in {"top_right", "center_right", "bottom_right"} -> "right"

\* Rect.get_top_left ... get_bottom_right: Vector(self.<horizontal>, self.<vertical>)
get_point(self, point) ==
    VectorOf(get_side(self, Horizontal(point)), get_side(self, Vertical(point)))

\* Rect.set_top_left ... set_bottom_right (behind accept_anything_as_vector):
\* self.<vertical> = point[1]; self.<horizontal> = point[0]
set_point(self, point, input) ==
    LET Go(c) ==
            IF c.err # "" THEN MThrow(c.err, self)
            ELSE SetSides(self, <<[name |-> Vertical(point), x |-> c.val.y],
                                  [name |-> Horizontal(point), x |-> c.val.x]>>, 1)
    IN  Go(accept_anything_as_vector(input))

\* Rect.align_left ... align_bottom (behind accept_anything_as_rectangle):
\* self.<side> = target.<side>
align(self, side, input) ==
    LET Got(g) == IF g.err # "" THEN MThrow(g.err, self) ELSE set_side(self, side, g.val)
        Go(c) == IF c.err # "" THEN MThrow(c.err, self) ELSE Got(get_side(c.val, side))
    IN  Go(cast_anything_to_rectangle(input))

\* a buggy variant: four paddings are taken clockwise (left, top, right, bottom)
Padding_clockwise(padding) ==
    IF Len(padding) = 4
    THEN [err |-> "", val |-> <<AsScalar(padding[1]), AsScalar(padding[3]),
                                AsScalar(padding[2]), AsScalar(padding[4])>>]
    ELSE IF Len(padding) = 0 THEN [err |-> "IndexError", val |-> <<>>]
    ELSE [err |-> "", val |-> [i \in 1..4 |-> AsScalar(padding[1])]]

\* lpad, rpad, tpad, bpad = padding, or all four = padding[0]
Padding(padding) ==
    IF Len(padding) = 4
    THEN [err |-> "", val |-> [i \in 1..4 |-> AsScalar(padding[i])]]
    ELSE IF Len(padding) = 0 THEN [err |-> "IndexError", val |-> <<>>]
    ELSE [err |-> "", val |-> [i \in 1..4 |-> AsScalar(padding[1])]]

\* Rect.grow(*padding)
grow(self, padding) ==
    LET Go(p) ==
            IF p.err # "" THEN MThrow(p.err, self)
            ELSE ReturnSelf(Augment(self,
                    <<[field |-> "bottom", f |-> "sub", amount |-> Ok(p.val[4])],
                      [field |-> "left", f |-> "sub", amount |-> Ok(p.val[1])],
                      [field |-> "width", f |-> "add",
                       amount |-> PyArith("add", p.val[1], p.val[2])],
                      [field |-> "height", f |-> "add",
                       amount |-> PyArith("add", p.val[3], p.val[4])]>>, 1))
    IN  Go(Padding(padding))

\* Rect.shrink(*padding)
shrink(self, padding) ==
    LET Go(p) ==
            IF p.err # "" THEN MThrow(p.err, self)
            ELSE ReturnSelf(Augment(self,
                    <<[field |-> "bottom", f |-> "add", amount |-> Ok(p.val[4])],
                      [field |-> "left", f |-> "add", amount |-> Ok(p.val[1])],
                      [field |-> "width", f |-> "sub",
                       amount |-> PyArith("add", p.val[1], p.val[2])],
                      [field |-> "height", f |-> "sub",
                       amount |-> PyArith("add", p.val[3], p.val[4])]>>, 1))
    IN  Go(Padding(padding))

\* Rect.get_grown: result = self.copy(); result.grow(padding); return result
get_grown(self, padding) ==
    LET Go(m) == IF m.err # "" THEN Throw(m.err) ELSE Return(m.self)
    IN  Go(grow(copy(self), <<padding>>))

\* Rect.get_shrunk: result = self.copy(); result.shrink(padding); return result
get_shrunk(self, padding) ==
    LET Go(m) == IF m.err # "" THEN Throw(m.err) ELSE Return(m.self)
    IN  Go(shrink(copy(self), <<padding>>))

\* Rect.set: self.bottom, self.left = shape.bottom, shape.left;
\* self.width, self.height = shape.width, shape.height; return self
Rect_set(self, shape) ==
    LET Second(m) ==
            IF m.err # "" THEN m
            ELSE IF ~HasAttr(shape, "width") \/ ~HasAttr(shape, "height")
            THEN MThrow("AttributeError", m.self)
            ELSE ReturnSelf(SetSides(m.self,
                    <<[name |-> "width", x |-> GetAttr(shape, "width")],
                      [name |-> "height", x |-> GetAttr(shape, "height")]>>, 1))
    IN  IF ~HasAttr(shape, "bottom") \/ ~HasAttr(shape, "left")
        THEN MThrow("AttributeError", self)
        ELSE Second(SetSides(self,
                    <<[name |-> "bottom", x |-> GetAttr(shape, "bottom")],
                      [name |-> "left", x |-> GetAttr(shape, "left")]>>, 1))

\* vertices[i], counting from 0
Item(vertices, i) ==
    CASE vertices.cls = "list" ->
            IF i < Len(vertices.items) THEN Return(vertices.items[i + 1])
            ELSE Throw("IndexError")
      [] Iterable(vertices) ->
            IF i < Len(Elems(vertices)) THEN Return(Scalar(Elems(vertices)[i + 1]))
            ELSE Throw("IndexError")
      [] OTHER -> Throw("TypeError")

\* self.<point> = vertices[i]
SetVertex(self, point, item) ==
    IF item.err # "" THEN MThrow(item.err, self)
    ELSE set_point(self, point, <<item.val>>)

\* the corners in the order set_vertices assigns them
VertexOrder == <<"top_left", "top_right", "bottom_right", "bottom_left">>

\* Rect.set_vertices, from the i-th assignment on
RECURSIVE SetVerticesFrom(_, _, _)
SetVerticesFrom(self, vertices, i) ==
    IF i > Len(VertexOrder) THEN MReturn(PyNone, self)
    ELSE LET Go(m) == IF m.err # "" THEN m ELSE SetVerticesFrom(m.self, vertices, i + 1)
         IN  Go(SetVertex(self, VertexOrder[i], Item(vertices, i - 1)))

set_vertices(self, vertices) == SetVerticesFrom(self, vertices, 1)

----------------------------------------------------------------------------
(* The values the calls are made with *)

Coords == {Whole(i) : i \in 0..MaxNum}
\* pairs of numbers, and two pairs with an element that is no number
Pairs == (Coords \X Coords) \cup {<<None, Whole(1)>>, <<Whole(1), None>>}

\* a Vector other than the receiver
OtherVector(x, y) == [cls |-> "Vector", id |-> OtherId, x |-> x, y |-> y]
\* a Rect other than the receiver
OtherRect(left, bottom, width, height) ==
    [cls |-> "Rect", id |-> OtherId, left |-> left, bottom |-> bottom,
     width |-> width, height |-> height]

\* the three kinds of value that coerce to a vector
VectorLikes ==
    {OtherVector(p[1], p[2]) : p \in Pairs}
    \cup {Tuple(<<p[1], p[2]>>) : p \in Pairs}
    \cup {XY(p[1], p[2]) : p \in Pairs}

\* a two-element sequence that also has x and y, with other values
PairWithXY == Object(TRUE, <<Whole(0), Whole(1)>>, XY(Whole(1), Whole(0)).attrs)
\* a three-element sequence that also has x and y
TripleWithXY ==
    Object(TRUE, <<Whole(0), Whole(0), Whole(0)>>, XY(Whole(1), Whole(0)).attrs)
\* an object with x but no y
OnlyX == Object(FALSE, <<>>, [a \in {"x"} |-> Whole(1)])

Scalars == {Scalar(c) : c \in Coords} \cup {PyNone}
ShortAndLong ==
    {Tuple(<<>>), Tuple(<<Whole(1)>>), Tuple(<<Whole(1), Whole(1), Whole(1)>>)}
SomeRect == OtherRect(Whole(0), Whole(1), Whole(1), Whole(2))
SomeShape == ShapeLike(Whole(1), Whole(0), Whole(2), Whole(1))

\* what cast_anything_to_vector is applied to
CastInputs ==
    VectorLikes \cup Scalars \cup ShortAndLong
    \cup {PairWithXY, TripleWithXY, OnlyX, SomeRect, SomeShape}

\* the right-hand (or, reflected, left-hand) operands of operator f.  A
\* sequence that does not coerce is an operand of + and - only: as the
\* "scalar" of * it would be repeated, not multiplied.
Operands(f) ==
    VectorLikes \cup Scalars \cup {PairWithXY, SomeRect, SomeShape}
    \cup (IF ScalarOk(f) THEN {} ELSE ShortAndLong)

\* the arguments of the named mutators
Arguments == VectorLikes \cup Scalars \cup {PairWithXY, SomeRect} \cup ShortAndLong
Extents == {Scalar(c) : c \in Coords} \cup {PyNone, Tuple(<<Whole(1), Whole(2)>>)}

\* a target so far away that the way to it from 1/2 is no float
FarPoint == Tuple(<<Whole(IntPow(2, Precision) - 1), Whole(0)>>)

\* the receivers as constructed
InitVectors == {[cls |-> "Vector", id |-> SelfId, x |-> p[1], y |-> p[2]] :
                    p \in Coords \X Coords}
InitRects == {[cls |-> "Rect", id |-> SelfId, left |-> Whole(0), bottom |-> Whole(0),
               width |-> Whole(w), height |-> Whole(h)] : w, h \in 0..MaxRect}
\* the receiver that the calls of a specification are not made on
InitVector == [cls |-> "Vector", id |-> SelfId, x |-> Whole(1), y |-> Whole(2)]
InitRect == [cls |-> "Rect", id |-> SelfId, left |-> Whole(0), bottom |-> Whole(0),
             width |-> Whole(1), height |-> Whole(1)]

\* arguments that coerce to a vector, and some that do not
PointArgs ==
    {Tuple(<<p[1], p[2]>>) : p \in Pairs}
    \cup {OtherVector(Whole(1), Whole(0)), XY(Whole(0), Whole(1)), PairWithXY}
    \cup {Scalar(Whole(0)), PyNone, Tuple(<<Whole(1)>>), SomeRect, SomeShape}

\* rectangles other than the receiver
OtherRects ==
    {OtherRect(p[1], p[2], w, Whole(1)) : p \in Coords \X Coords,
                                           w \in {Whole(0), Whole(MaxNum)}}
\* an object with bottom and left but neither width nor height
PartialShape ==
    Object(FALSE, <<>>, [a \in {"bottom", "left"} |-> Whole(1)])
\* a shape that also has x and y
ShapeWithXY ==
    Object(FALSE, <<>>, [a \in {"left", "bottom", "width", "height", "x", "y"} |->
        IF a \in {"x", "y"} THEN Whole(2) ELSE Whole(1)])
\* a two-element sequence that is also a shape
ShapeAndPair ==
    Object(TRUE, <<Whole(2), Whole(2)>>, SomeShape.attrs)

\* arguments that coerce to a rectangle, and some that do not
ShapeArgs == OtherRects \cup {SomeShape, ShapeWithXY, ShapeAndPair}
NoShapeArgs ==
    {Tuple(<<Whole(1), Whole(1)>>), Tuple(<<None, Whole(1)>>),
     OtherVector(Whole(1), Whole(0)), XY(Whole(0), Whole(1)), PairWithXY,
     Scalar(Whole(0)), PyNone, Tuple(<<Whole(1)>>), PartialShape}
RectArgs == ShapeArgs \cup NoShapeArgs

\* the operands of a union or an intersection
UnionArgs ==
    {SomeRect, SomeShape, ShapeWithXY, Tuple(<<Whole(1), Whole(1)>>),
     OtherVector(Whole(1), Whole(0)), XY(Whole(0), Whole(1)), Scalar(Whole(0))}

\* two rectangles for an intersection: one whose right edge is the largest
\* odd number a float holds, and one of floats that starts at 1/2 and ends
\* beyond it
FarRect == OtherRect(Whole(0), Whole(0), Whole(IntPow(2, Precision) - 1), Whole(1))
WideRect ==
    OtherRect(Float(Num(1, 2)), Whole(0), Float(Whole(IntPow(2, Precision) - 1)), Whole(1))

\* a rectangle of negative width and height
FlippedRect == OtherRect(Whole(1), Whole(1), Whole(-1), Whole(-MaxNeg))

\* the positional arguments of grow and shrink
Paddings ==
    {<<Scalar(c)>> : c \in Coords}
    \cup {<<>>, <<PyNone>>, <<Scalar(Whole(1)), Scalar(Whole(0))>>,
          <<Scalar(Whole(1)), Scalar(Whole(0)), Scalar(Whole(0)), Scalar(Whole(1))>>,
          <<Scalar(Whole(1)), Scalar(Whole(1)), Scalar(Whole(0)), Scalar(Whole(0))>>,
          <<PyNone, Scalar(Whole(0)), Scalar(Whole(0)), Scalar(Whole(1))>>}

\* the arguments of set_vertices
VertexLists ==
    {List(<<Tuple(<<Whole(0), Whole(1)>>), Tuple(<<Whole(1), Whole(1)>>),
            Tuple(<<Whole(1), Whole(0)>>), Tuple(<<Whole(0), Whole(0)>>)>>),
     List(<<Tuple(<<Whole(1), Whole(2)>>), Scalar(Whole(0)),
            Tuple(<<Whole(1), Whole(0)>>), Tuple(<<Whole(0), Whole(0)>>)>>),
     List(<<Tuple(<<Whole(1), Whole(2)>>)>>),
     List(<<>>),
     Tuple(<<Whole(1), Whole(2), Whole(1), Whole(2)>>),
     Scalar(Whole(0))}

NoCall == [name |-> "", f |-> ""]

\* the state after the receivers are constructed
InitWith(vectors, rects) ==
    /\ v \in vectors
    /\ r \in rects
    /\ pc = "ready"
    /\ op = NoCall
    /\ args = <<>>
    /\ res = Return(PyNone)
    /\ kept = PyNone
    /\ old = [v |-> v, r |-> r, kept |-> kept]

Init == InitWith(InitVectors, {InitRect})

----------------------------------------------------------------------------
(* Calls on the receiver Vector *)

\* a call is explored when its outcome is a number of the model and the
\* receiver stays within the explored range
Explored(out, self) ==
    /\ out.err # "Unrepresentable"
    /\ InRange(self.x) /\ InRange(self.y)

\* an attribute assigned through one name is seen through every name of the
\* same object: what the name holding obj reads once before has become after
SeenThrough(obj, before, after) ==
    IF obj.cls = before.cls /\ obj.id = before.id THEN after ELSE obj

\* a call of a function, or of a method that assigns nothing to its receiver:
\* the receiver reads as before unless the object handed back is the receiver
\* itself, which then reads as that object does
VCall(name, f, a, outcome) ==
    \E out \in {outcome} :
        /\ out.err # "Unrepresentable"
        /\ pc' = "done"
        /\ op' = [name |-> name, f |-> f]
        /\ args' = a
        /\ res' = [err |-> out.err, val |-> out.val]
        /\ old' = [v |-> v, r |-> r, kept |-> kept]
        /\ v' = SeenThrough(v, out.val, out.val)
        /\ r' = SeenThrough(r, out.val, out.val)
        /\ UNCHANGED kept

\* a call of a method that may change the receiver Vector
VMutate(name, f, a, outcome) ==
    \E out \in {outcome} :
        /\ Explored(out, out.self)
        /\ pc' = "done"
        /\ op' = [name |-> name, f |-> f]
        /\ args' = a
        /\ res' = [err |-> out.err, val |-> out.val]
        /\ old' = [v |-> v, r |-> r, kept |-> kept]
        /\ v' = out.self
        /\ kept' = SeenThrough(kept, v, out.self)
        /\ UNCHANGED r

CastAnythingToVector ==
    /\ pc = "ready"
    /\ \E input \in CastInputs :
        VCall("cast_anything_to_vector", "", <<input>>, cast_anything_to_vector(input))

LeftSide ==
    /\ pc = "ready"
    /\ \E f \in Operators : \E other \in Operands(f) :
        VCall("_overload_left_side", f, <<other>>,
              overload_left_side(f, ScalarOk(f), v, other))

RightSide ==
    /\ pc = "ready"
    /\ \E f \in Operators : \E other \in Operands(f) :
        VCall("_overload_right_side", f, <<other>>,
              overload_right_side(f, ScalarOk(f), v, other))

InPlace ==
    /\ pc = "ready"
    /\ \E f \in Operators : \E other \in Operands(f) :
        VMutate("_overload_in_place", f, <<other>>,
                overload_in_place(f, ScalarOk(f), v, other))

Eq ==
    /\ pc = "ready"
    /\ \E other \in CastInputs : VCall("__eq__", "", <<other>>, Vector_eq(v, other))

Ne ==
    /\ pc = "ready"
    /\ \E other \in CastInputs : VCall("__ne__", "", <<other>>, Vector_ne(v, other))

Normalize ==
    /\ pc = "ready"
    /\ VMutate("normalize", "", <<>>, normalize(v))

Scale ==
    /\ pc = "ready"
    /\ \E m \in Operands("mul") : VMutate("scale", "", <<m>>, scale(v, m))

SetMagnitude ==
    /\ pc = "ready"
    /\ \E m \in Operands("mul") :
        VMutate("set_magnitude", "", <<m>>, set_magnitude(v, m))

Interpolate ==
    /\ pc = "ready"
    /\ \E target \in Arguments \cup {FarPoint} : \E extent \in Extents :
        VMutate("interpolate", "", <<target, extent>>, interpolate(v, target, extent))

GetInterpolated ==
    /\ pc = "ready"
    /\ \E target \in Arguments \cup {FarPoint} : \E extent \in Extents :
        VCall("get_interpolated", "", <<target, extent>>,
              get_interpolated(v, target, extent))

Assign ==
    /\ pc = "ready"
    /\ \E other \in Arguments : VMutate("assign", "", <<other>>, assign(v, other))

Project ==
    /\ pc = "ready"
    /\ \E axis \in Arguments : VMutate("project", "", <<axis>>, project(v, axis))

SetTuple ==
    /\ pc = "ready"
    /\ \E xy \in Arguments : VMutate("set_tuple", "", <<xy>>, set_tuple(v, xy))

\* a scalar that is returned, or the exception that is raised
ReturnScalar(a) == IF a.err # "" THEN Throw(a.err) ELSE Return(Scalar(a.val))

GetUnit ==
    /\ pc = "ready"
    /\ VCall("get_unit", "", <<>>, get_unit(v))

\* interpolate(v, other, n) and interpolate(other, v, n), for n a number of
\* points or None
FreeInterpolate ==
    /\ pc = "ready"
    /\ \E other \in {OtherVector(Whole(MaxNum), Whole(0)), Tuple(<<Whole(0), Whole(1)>>),
                     XY(Whole(1), Whole(1)), Tuple(<<None, Whole(1)>>), PyNone} :
       \E n \in {Scalar(Whole(k)) : k \in 0..MaxPoints} \cup {PyNone} :
       \E a \in {<<v, other, n>>, <<other, v, n>>} :
            VCall("vecrec.interpolate", "", a, free_interpolate(a[1], a[2], a[3]))

\* -v and abs(v)
Unary ==
    /\ pc = "ready"
    /\ \/ VCall("__neg__", "", <<>>, Vector_neg(v))
       \/ VCall("__abs__", "", <<>>, Vector_abs(v))

GetOrthonormal ==
    /\ pc = "ready"
    /\ VCall("get_orthonormal", "", <<>>, get_orthonormal(v))

GetScaled ==
    /\ pc = "ready"
    /\ \E m \in Scalars : VCall("get_scaled", "", <<m>>, get_scaled(v, m))

GetRadians ==
    /\ pc = "ready"
    /\ VCall("get_radians", "", <<>>, ReturnScalar(get_radians(v)))

GetDegrees ==
    /\ pc = "ready"
    /\ VCall("get_degrees", "", <<>>, ReturnScalar(get_degrees(v)))

GetRadiansTo ==
    /\ pc = "ready"
    /\ \E other \in PointArgs :
        VCall("get_radians_to", "", <<other>>, ReturnScalar(get_radians_to(v, <<other>>)))

GetDegreesTo ==
    /\ pc = "ready"
    /\ \E other \in PointArgs :
        VCall("get_degrees_to", "", <<other>>, ReturnScalar(get_degrees_to(v, <<other>>)))

GetProjection ==
    /\ pc = "ready"
    /\ \E axis \in Arguments :
        VCall("get_projection", "", <<axis>>, get_projection(v, axis))

GetComponents ==
    /\ pc = "ready"
    /\ \E axis \in Arguments :
        VCall("get_components", "", <<axis>>, get_components(v, axis))

\* the caller goes on to its next statement
Continue ==
    /\ pc = "done"
    /\ pc' = "ready"
    /\ op' = NoCall
    /\ args' = <<>>
    /\ res' = Return(PyNone)
    /\ old' = [v |-> v, r |-> r, kept |-> kept]
    /\ UNCHANGED <<v, r, kept>>

\* a call on the receiver Vector
VectorCalls ==
    \/ CastAnythingToVector
    \/ LeftSide
    \/ RightSide
    \/ InPlace
    \/ Eq
    \/ Ne
    \/ Normalize
    \/ Scale
    \/ SetMagnitude
    \/ Interpolate
    \/ Assign
    \/ Project
    \/ SetTuple
    \/ GetUnit
    \/ GetOrthonormal
    \/ GetScaled
    \/ GetRadians
    \/ GetDegrees
    \/ GetRadiansTo
    \/ GetDegreesTo
    \/ GetProjection
    \/ GetComponents
    \/ GetInterpolated
    \/ Unary
    \/ FreeInterpolate

NextVector == VectorCalls \/ Continue

SpecVector == Init /\ [][NextVector]_vars

----------------------------------------------------------------------------
(* The claims about the receiver Vector, stated over SpecVector *)

\* the call that has just returned or raised
Called(name) == pc = "done" /\ op.name = name
\* a sequence of exactly two elements that is not a Vector
IsPairSeq(o) == o.cls = "object" /\ o.iter /\ Len(o.elems) = 2
\* an object, not a Vector, with attributes x and y
HasXY(o) == o.cls = "object" /\ {"x", "y"} \subseteq DOMAIN o.attrs
\* a bare scalar: a number or None
IsScalar(o) == o.cls = "scalar"
\* both coordinates are numbers
Numeric(w) == IsNum(w.x) /\ IsNum(w.y)
\* the value coerces to a vector, and the coordinates it coerces to
Coercible(o) == o.cls = "Vector" \/ IsPairSeq(o) \/ HasXY(o)
CoordX(o) ==
    IF o.cls = "Vector" THEN o.x ELSE IF IsPairSeq(o) THEN o.elems[1] ELSE o.attrs["x"]
CoordY(o) ==
    IF o.cls = "Vector" THEN o.y ELSE IF IsPairSeq(o) THEN o.elems[2] ELSE o.attrs["y"]
\* a new Vector with the given coordinates was returned
ReturnedVector(x, y) ==
    res.err = "" /\ res.val.cls = "Vector" /\ res.val.id = NewId
    /\ res.val.x = x /\ res.val.y = y

\* C1: cast_anything_to_vector resolves in a fixed order, first match wins:
\* a Vector is returned as the very same object; otherwise a sequence of
\* exactly two elements gives Vector(a, b); otherwise an object with x and y
\* gives Vector(input.x, input.y); otherwise VectorCastError.  So a bare
\* scalar and a sequence of one or three elements without x and y raise,
\* and a two-element sequence that also has x and y is converted from its
\* elements.
C1_CastOrder ==
    Called("cast_anything_to_vector") =>
        LET input == args[1]
        IN  /\ IF input.cls = "Vector"
                  THEN res.err = "" /\ res.val = input /\ res.val.id = OtherId
               ELSE IF IsPairSeq(input)
                  THEN ReturnedVector(input.elems[1], input.elems[2])
               ELSE IF HasXY(input)
                  THEN ReturnedVector(input.attrs["x"], input.attrs["y"])
               ELSE res.err = "VectorCastError"
            /\ IsScalar(input) => res.err = "VectorCastError"
            /\ (input.cls = "object" /\ input.iter /\ Len(input.elems) \in {1, 3}
                    /\ ~HasXY(input)) => res.err = "VectorCastError"

\* C1's case: a two-element sequence with x and y too, converted from its elements
C1_Witness ==
    /\ Called("cast_anything_to_vector")
    /\ IsPairSeq(args[1]) /\ HasXY(args[1])
    /\ args[1].elems[1] # args[1].attrs["x"]
    /\ ReturnedVector(args[1].elems[1], args[1].elems[2])

\* an input, not a Vector, that coerces from a pair or from x and y of which
\* one is no number
HasNonNumber(input) ==
    \/ IsPairSeq(input) /\ (~IsNum(input.elems[1]) \/ ~IsNum(input.elems[2]))
    \/ ~IsPairSeq(input) /\ HasXY(input)
        /\ (~IsNum(input.attrs["x"]) \/ ~IsNum(input.attrs["y"]))

\* C2 as claimed: a two-element input, or an x/y object, with a non-numeric
\* element or attribute is rejected with VectorCastError
C2_NonNumericRejected ==
    (Called("cast_anything_to_vector") /\ HasNonNumber(args[1]))
        => res.err = "VectorCastError"

\* C2 as amended: the coercion does not look at what the two elements or
\* attributes are; a pair or an x/y object with a non-numeric member is
\* returned as a Vector holding those members
C2_NonNumericAccepted ==
    (Called("cast_anything_to_vector") /\ HasNonNumber(args[1]))
        => ReturnedVector(CoordX(args[1]), CoordY(args[1]))

\* C2's case: a pair whose first element is no number became a Vector
C2_Witness ==
    /\ Called("cast_anything_to_vector")
    /\ IsPairSeq(args[1]) /\ ~IsNum(args[1].elems[1])
    /\ res.err = "" /\ res.val.cls = "Vector" /\ ~IsNum(res.val.x)

\* the three forms of an operator
OperatorForms == {"_overload_left_side", "_overload_right_side", "_overload_in_place"}
CalledOperator(fs) == pc = "done" /\ op.name \in OperatorForms /\ op.f \in fs

\* C5: for + and - in all three forms with a bare scalar s on a numeric
\* vector: s = 0 succeeds, and v + 0, 0 + v and v - 0 equal v; any other
\* scalar raises VectorCastError
C5_ScalarAddSub ==
    (CalledOperator({"add", "sub"}) /\ IsScalar(args[1]) /\ Numeric(old.v)) =>
        IF args[1].val = Whole(0)
        THEN /\ res.err = "" /\ res.val.cls = "Vector"
             /\ ~(op.name = "_overload_right_side" /\ op.f = "sub")
                    => (res.val.x = old.v.x /\ res.val.y = old.v.y)
             /\ op.name = "_overload_in_place" => (v = res.val /\ v = old.v)
        ELSE res.err = "VectorCastError" /\ v = old.v

\* C5's case: 0 + v gave v, for a v that is not null
C5_Witness ==
    /\ CalledOperator({"add"}) /\ op.name = "_overload_right_side"
    /\ args[1] = Scalar(Whole(0))
    /\ old.v.x # Whole(0) /\ Numeric(old.v)
    /\ ReturnedVector(old.v.x, old.v.y)

\* the operand as the operators read it: its coordinates when it coerces,
\* the scalar itself otherwise
OperandX(o) == IF Coercible(o) THEN CoordX(o) ELSE o.val
OperandY(o) == IF Coercible(o) THEN CoordY(o) ELSE o.val

\* C6: for *, /, //, % and **, on numbers: the forward form gives
\* Vector(f(v.x, w.x), f(v.y, w.y)) for a coercible w and
\* Vector(f(v.x, k), f(v.y, k)) for a scalar k; the reflected form gives
\* Vector(f(w.x, v.x), f(w.y, v.y)) and Vector(f(k, v.x), f(k, v.y)); the
\* in-place form stores the forward result in v.  Where f raises (a zero
\* divisor) the operator raises the same and v is unchanged.  The result
\* depends on the operand's coordinates only, so a tuple, an x/y object and a
\* Vector with the same coordinates give the same result.
C6_ScalarOkOperators ==
    (/\ CalledOperator({"mul", "truediv", "floordiv", "mod", "pow"})
     /\ Numeric(old.v)
     /\ Coercible(args[1]) \/ IsScalar(args[1])
     /\ IsNum(OperandX(args[1])) /\ IsNum(OperandY(args[1]))) =>
        LET reflected == op.name = "_overload_right_side"
            fx == IF reflected THEN PyArith(op.f, OperandX(args[1]), old.v.x)
                  ELSE PyArith(op.f, old.v.x, OperandX(args[1]))
            fy == IF reflected THEN PyArith(op.f, OperandY(args[1]), old.v.y)
                  ELSE PyArith(op.f, old.v.y, OperandY(args[1]))
        IN  IF fx.err = "" /\ fy.err = ""
            THEN /\ res.err = "" /\ res.val.cls = "Vector"
                 /\ res.val.x = fx.val /\ res.val.y = fy.val
                 /\ IF op.name = "_overload_in_place"
                    THEN v = res.val /\ v.id = SelfId
                    ELSE v = old.v /\ res.val.id = NewId
            ELSE /\ res.err = IF fx.err # "" THEN fx.err ELSE fy.err
                 /\ v = old.v

\* C6's case: a reflected division by the receiver, k / v, with k a scalar
C6_Witness ==
    /\ CalledOperator({"truediv"}) /\ op.name = "_overload_right_side"
    /\ args[1] = Scalar(Whole(1))
    /\ old.v.x = Whole(2) /\ old.v.y = Whole(1)
    /\ ReturnedVector(Num(1, 2), Whole(1))

VectorMutators ==
    {"_overload_in_place", "normalize", "scale", "set_magnitude", "interpolate",
     "assign", "project", "set_tuple"}

\* C9 as claimed: when an in-place operator or a named mutator of Vector
\* raises, the receiver's x and y are what they were before the call
C9_NoPartialVectorMutation ==
    (pc = "done" /\ op.name \in VectorMutators /\ res.err # "") => v = old.v

----------------------------------------------------------------------------
(* Calls on the receiver Rect *)

\* whether a field of the receiver Rect is within the explored range
InRectRange(a) ==
    IsNum(a) => (0 <= a.n /\ a.n <= MaxRect * a.d /\ a.d <= MaxDen)
InSizeRange(a) ==
    IsNum(a) => (-MaxNeg * a.d <= a.n /\ a.n <= MaxRect * a.d /\ a.d <= MaxDen)

\* a call is explored when the receiver stays within the explored range
ExploredRect(out, self) ==
    /\ out.err # "Unrepresentable"
    /\ InRectRange(self.left) /\ InRectRange(self.bottom)
    /\ InSizeRange(self.width) /\ InSizeRange(self.height)
    /\ IsNum(self.bottom) => self.bottom.d = 1
    /\ IsNum(self.height) => self.height.d = 1

\* a call of a method that may change the receiver Rect
RMutate(name, f, a, outcome) ==
    \E out \in {outcome} :
        /\ ExploredRect(out, out.self)
        /\ pc' = "done"
        /\ op' = [name |-> name, f |-> f]
        /\ args' = a
        /\ res' = [err |-> out.err, val |-> out.val]
        /\ old' = [v |-> v, r |-> r, kept |-> kept]
        /\ r' = out.self
        /\ kept' = SeenThrough(kept, r, out.self)
        /\ UNCHANGED v

CastAnythingToRectangle ==
    /\ pc = "ready"
    /\ \E input \in RectArgs :
        VCall("cast_anything_to_rectangle", "", <<input>>,
              cast_anything_to_rectangle(input))

CastShapeToRectangle ==
    /\ pc = "ready"
    /\ \E input \in RectArgs :
        VCall("cast_shape_to_rectangle", "", <<input>>, cast_shape_to_rectangle(input))

Touching ==
    /\ pc = "ready"
    /\ \E other \in RectArgs \cup {FlippedRect} :
        VCall("touching", "", <<other>>, touching(r, other))

\* r.bottom_left and r.top_right, where the getters return
Corners(self) ==
    {c.val : c \in {g \in {get_point(self, p) : p \in {"bottom_left", "top_right"}} :
                        g.err = ""}}
Contains ==
    /\ pc = "ready"
    /\ \E other \in RectArgs \cup Corners(r) :
        VCall("contains", "", <<other>>, contains(r, other))

Outside ==
    /\ pc = "ready"
    /\ \E other \in RectArgs \cup {FlippedRect} :
        VCall("outside", "", <<other>>, outside(r, other))

Inside ==
    /\ pc = "ready"
    /\ \E other \in RectArgs : VCall("inside", "", <<other>>, inside(r, other))

FromUnion ==
    /\ pc = "ready"
    /\ \E a \in UnionArgs \cup {r} : \E b \in UnionArgs :
        \E inputs \in {<<a>>, <<a, b>>} :
            VCall("from_union", "", inputs, from_union(inputs))

FromIntersection ==
    /\ pc = "ready"
    /\ \E a \in UnionArgs \cup {r, WideRect} : \E b \in UnionArgs \cup {FarRect} :
        \E inputs \in {<<a>>, <<a, b>>} :
            VCall("from_intersection", "", inputs, from_intersection(inputs))

GetUnion ==
    /\ pc = "ready"
    /\ \E other \in UnionArgs :
        VCall("get_union", "", <<other>>, get_union(r, <<other>>))

GetIntersection ==
    /\ pc = "ready"
    /\ \E other \in UnionArgs :
        VCall("get_intersection", "", <<other>>, get_intersection(r, <<other>>))

Displace ==
    /\ pc = "ready"
    /\ \E input \in {<<p>> : p \in PointArgs} \cup {<<Scalar(Whole(1)), Scalar(Whole(2))>>} :
        RMutate("displace", "", input, displace(r, input))

IAdd ==
    /\ pc = "ready"
    /\ \E vector \in PointArgs :
        RMutate("__iadd__", "", <<vector>>, Rect_iadd(r, <<vector>>))

ISub ==
    /\ pc = "ready"
    /\ \E vector \in PointArgs :
        RMutate("__isub__", "", <<vector>>, Rect_isub(r, <<vector>>))

Add ==
    /\ pc = "ready"
    /\ \E vector \in PointArgs :
        VCall("__add__", "", <<vector>>, Rect_add(r, <<vector>>))

Sub ==
    /\ pc = "ready"
    /\ \E vector \in PointArgs :
        VCall("__sub__", "", <<vector>>, Rect_sub(r, <<vector>>))

SetPoint ==
    /\ pc = "ready"
    /\ \E point \in Points : \E input \in PointArgs :
        RMutate("set_point", point, <<input>>, set_point(r, point, <<input>>))

Align ==
    /\ pc = "ready"
    /\ \E side \in Sides : \E target \in RectArgs :
        RMutate("align", side, <<target>>, align(r, side, target))

Grow ==
    /\ pc = "ready"
    /\ \E padding \in Paddings : RMutate("grow", "", padding, grow(r, padding))

Shrink ==
    /\ pc = "ready"
    /\ \E padding \in Paddings : RMutate("shrink", "", padding, shrink(r, padding))

GetResized ==
    /\ pc = "ready"
    /\ \E padding \in {p[1] : p \in {q \in Paddings : Len(q) = 1}} :
        \/ VCall("get_grown", "", <<padding>>, get_grown(r, padding))
        \/ VCall("get_shrunk", "", <<padding>>, get_shrunk(r, padding))

Set ==
    /\ pc = "ready"
    /\ \E shape \in RectArgs : RMutate("set", "", <<shape>>, Rect_set(r, shape))

SetVertices ==
    /\ pc = "ready"
    /\ \E vertices \in VertexLists :
        RMutate("set_vertices", "", <<vertices>>, set_vertices(r, vertices))

SetSide ==
    /\ pc = "ready"
    /\ \E name \in Sides \cup {"width", "height"} :
       \E x \in (IF name \in Sides THEN Coords \cup {None} ELSE Coords) :
        RMutate("set_side", name, <<Scalar(x)>>, set_side(r, name, x))

In ==
    /\ pc = "ready"
    /\ \E other \in RectArgs :
        VCall("__contains__", "", <<other>>, Rect_contains(r, other))

\* a call on the receiver Rect
RectCalls ==
    \/ CastAnythingToRectangle
    \/ CastShapeToRectangle
    \/ Touching
    \/ Contains
    \/ Outside
    \/ Inside
    \/ FromUnion
    \/ FromIntersection
    \/ GetUnion
    \/ GetIntersection
    \/ Displace
    \/ IAdd
    \/ ISub
    \/ Add
    \/ Sub
    \/ SetPoint
    \/ Align
    \/ Grow
    \/ Shrink
    \/ GetResized
    \/ Set
    \/ SetVertices
    \/ SetSide
    \/ In

NextRect == RectCalls \/ Continue

SpecRect == InitWith({InitVector}, InitRects) /\ [][NextRect]_vars

----------------------------------------------------------------------------
(* One call on a receiver that holds floats *)

\* the number n/2 as an exact number or as a float
Half(kind, n) == IF kind = "float" THEN Float(Num(n, 2)) ELSE Num(n, 2)

\* the receivers as constructed from exact numbers or from floats: the
\* coordinates of a Vector, the left and the width of a Rect are multiples
\* of 1/2
FloatVectors ==
    {[InitVector EXCEPT !.x = Half(k, p[1]), !.y = Half(k, p[2])] :
        k \in {"num", "float"}, p \in (0..2 * MaxNum) \X (0..2 * MaxNum)}
FloatRects ==
    {[InitRect EXCEPT !.left = Half(k, p[1]), !.bottom = Half(k, 0),
                      !.width = Half(k, p[2]), !.height = Half(k, 2 * p[3])] :
        k \in {"num", "float"},
        p \in (0..2 * MaxRect) \X (-2 * MaxNeg .. 2 * MaxRect) \X {-MaxNeg, 0, MaxRect}}

\* every receiver in range is constructed, and one call is made on it
NextFloat ==
    \/ r = InitRect /\ VectorCalls
    \/ v = InitVector /\ RectCalls

SpecFloat ==
    /\ InitWith(FloatVectors, {InitRect}) \/ InitWith({InitVector}, FloatRects)
    /\ [][NextFloat]_vars

----------------------------------------------------------------------------
(* A copy and its original: the caller copies a receiver as constructed,   *)
(* keeps both objects, and makes one call on either of them                *)

\* w = v.copy(); the calls go on with w (on_copy) or with v
VectorCopy ==
    /\ pc = "ready"
    /\ kept = PyNone
    /\ \E out \in {Return(copy(v))} : \E on_copy \in BOOLEAN :
        /\ pc' = "done"
        /\ op' = [name |-> "copy", f |-> "Vector"]
        /\ args' = <<>>
        /\ res' = out
        /\ old' = [v |-> v, r |-> r, kept |-> kept]
        /\ v' = IF on_copy THEN out.val ELSE v
        /\ kept' = IF on_copy THEN v ELSE out.val
        /\ UNCHANGED r

\* s = r.copy(); the calls go on with s (on_copy) or with r
RectCopy ==
    /\ pc = "ready"
    /\ kept = PyNone
    /\ \E out \in {Return(copy(r))} : \E on_copy \in BOOLEAN :
        /\ pc' = "done"
        /\ op' = [name |-> "copy", f |-> "Rect"]
        /\ args' = <<>>
        /\ res' = out
        /\ old' = [v |-> v, r |-> r, kept |-> kept]
        /\ r' = IF on_copy THEN out.val ELSE r
        /\ kept' = IF on_copy THEN r ELSE out.val
        /\ UNCHANGED v

NextCopy ==
    \/ VectorCopy
    \/ RectCopy
    \/ Called("copy") /\ Continue
    \/ kept.cls = "Vector" /\ VectorCalls
    \/ kept.cls = "Rect" /\ RectCalls

SpecCopy ==
    /\ InitWith(InitVectors, {InitRect}) \/ InitWith({InitVector}, InitRects)
    /\ [][NextCopy]_vars

----------------------------------------------------------------------------
(* A returned object and the argument it was made from: the caller passes  *)
(* a receiver to a call, keeps the Vector or Rect that comes back, and     *)
(* makes one call that can change its receiver on either of the two       *)

\* w = f(v, ...); the calls go on with w (on_result) or with v
VKeep(name, f, a, outcome) ==
    \E out \in {outcome} : \E on_result \in BOOLEAN :
        /\ out.err = "" /\ out.val.cls = "Vector"
        /\ pc' = "done"
        /\ op' = [name |-> name, f |-> f]
        /\ args' = a
        /\ res' = out
        /\ old' = [v |-> v, r |-> r, kept |-> kept]
        /\ v' = IF on_result THEN out.val ELSE v
        /\ kept' = IF on_result THEN v ELSE out.val
        /\ UNCHANGED r

\* s = f(r, ...); the calls go on with s (on_result) or with r
RKeep(name, f, a, outcome) ==
    \E out \in {outcome} : \E on_result \in BOOLEAN :
        /\ out.err = "" /\ out.val.cls = "Rect"
        /\ pc' = "done"
        /\ op' = [name |-> name, f |-> f]
        /\ args' = a
        /\ res' = out
        /\ old' = [v |-> v, r |-> r, kept |-> kept]
        /\ r' = IF on_result THEN out.val ELSE r
        /\ kept' = IF on_result THEN r ELSE out.val
        /\ UNCHANGED v

\* the other end of an interpolation, and how many points are asked for
Targets == {OtherVector(Whole(2), Whole(0)), Tuple(<<Whole(0), Whole(1)>>)}
Counts == {Scalar(Whole(n)) : n \in 1..MaxPoints}
\* where the element i of a list of n elements is
Position(i, n) == IF i = 1 THEN "first" ELSE IF i = n THEN "last" ELSE "inner"

KeepFromAnything ==
    /\ pc = "ready" /\ kept = PyNone
    /\ VKeep("from_anything", "", <<v>>, Vector_from_anything(v))

\* w = interpolate(v, other, n)[i], or interpolate(other, v, n)[i]
KeepInterpolated ==
    /\ pc = "ready" /\ kept = PyNone
    /\ \E other \in Targets : \E n \in Counts :
        \E a \in {<<v, other, n>>, <<other, v, n>>} :
            \E out \in {free_interpolate(a[1], a[2], a[3])} :
                /\ out.err = ""
                /\ \E i \in 1..Len(out.val.items) :
                      VKeep("interpolate", Position(i, Len(out.val.items)), a,
                            Return(out.val.items[i]))

\* w = v + other, v - other, ...
KeepLeftSide ==
    /\ pc = "ready" /\ kept = PyNone
    /\ \E f \in Operators : \E other \in Targets \cup {Scalar(Whole(1))} :
        VKeep("_overload_left_side", f, <<other>>,
              overload_left_side(f, ScalarOk(f), v, other))

\* w = v.get_unit(), v.get_orthogonal(), -v, v.get_interpolated(target, 1/2),
\* v.get_projection(axis)
KeepGot ==
    /\ pc = "ready" /\ kept = PyNone
    /\ \/ VKeep("get_unit", "", <<>>, get_unit(v))
       \/ VKeep("get_orthogonal", "", <<>>, get_orthogonal(v))
       \/ VKeep("__neg__", "", <<>>, Vector_neg(v))
       \/ \E target \in Targets :
             \/ VKeep("get_interpolated", "", <<target, Scalar(Num(1, 2))>>,
                      get_interpolated(v, target, Scalar(Num(1, 2))))
             \/ VKeep("get_projection", "", <<target>>, get_projection(v, target))

\* s = cast_shape_to_rectangle(r), cast_anything_to_rectangle(r)
KeepCast ==
    /\ pc = "ready" /\ kept = PyNone
    /\ \/ RKeep("cast_shape_to_rectangle", "", <<r>>, cast_shape_to_rectangle(r))
       \/ RKeep("cast_anything_to_rectangle", "", <<r>>, cast_anything_to_rectangle(r))

\* s = Rect.from_shape(r), Rect.from_union(r), r.get_union(other),
\* Rect.from_intersection(r, other), r + p, r - p
KeepMade ==
    /\ pc = "ready" /\ kept = PyNone
    /\ \/ RKeep("from_shape", "", <<r>>, Rect_from_shape(r))
       \/ RKeep("from_union", "", <<r>>, from_union(<<r>>))
       \/ RKeep("get_union", "", <<SomeRect>>, get_union(r, <<SomeRect>>))
       \/ RKeep("from_intersection", "", <<r, SomeRect>>,
                from_intersection(<<r, SomeRect>>))
       \/ \E p \in Targets :
             \/ RKeep("__add__", "", <<p>>, Rect_add(r, <<p>>))
             \/ RKeep("__sub__", "", <<p>>, Rect_sub(r, <<p>>))

\* the calls that can change their receiver
VectorChanges ==
    \/ InPlace
    \/ Normalize
    \/ Scale
    \/ SetMagnitude
    \/ Interpolate
    \/ Assign
    \/ Project
    \/ SetTuple
RectChanges ==
    \/ Displace
    \/ IAdd
    \/ ISub
    \/ SetPoint
    \/ Align
    \/ Grow
    \/ Shrink
    \/ Set
    \/ SetVertices
    \/ SetSide

NextKeep ==
    \/ KeepFromAnything
    \/ KeepInterpolated
    \/ KeepLeftSide
    \/ KeepGot
    \/ KeepCast
    \/ KeepMade
    \/ (pc = "done" /\ old.kept = PyNone) /\ Continue
    \/ kept.cls = "Vector" /\ VectorChanges
    \/ kept.cls = "Rect" /\ RectChanges

SpecKeep ==
    /\ InitWith({InitVector, [InitVector EXCEPT !.x = Whole(0)]}, {InitRect})
    /\ [][NextKeep]_vars

----------------------------------------------------------------------------
(* The claims about the receiver Rect, stated over SpecRect *)

\* a Rect, or an object with bottom, left, width and height
HasShape(o) ==
    \/ o.cls = "Rect"
    \/ o.cls = "object" /\ {"bottom", "left", "width", "height"} \subseteq DOMAIN o.attrs
\* a field of a shape
ShapeField(o, a) == IF o.cls = "Rect" THEN o[a] ELSE o.attrs[a]
\* a value that coerces to a vector and is no shape
VectorLike(o) == ~HasShape(o) /\ Coercible(o)
\* a Rect was returned whose four fields are those of the shape
ReturnedFieldsOf(shape) ==
    /\ res.err = "" /\ res.val.cls = "Rect"
    /\ \A a \in {"bottom", "left", "width", "height"} : res.val[a] = ShapeField(shape, a)

UnionOps == {"from_union", "from_intersection", "get_union", "get_intersection"}

\* C4: cast_shape_to_rectangle returns a Rect as the same object, builds a
\* Rect by field copy from any other object with bottom, left, width and
\* height, and raises RectCastError for everything else: a Vector, a
\* two-element tuple, an x/y object.  So from_union, from_intersection,
\* get_union and get_intersection raise RectCastError whenever one of their
\* operands is vector-like.
C4_StrictShapeCast ==
    /\ Called("cast_shape_to_rectangle") =>
          IF args[1].cls = "Rect" THEN res = Return(args[1])
          ELSE IF HasShape(args[1])
          THEN ReturnedFieldsOf(args[1]) /\ res.val.id = NewId
          ELSE res.err = "RectCastError"
    /\ (/\ pc = "done" /\ op.name \in UnionOps
        /\ \E i \in 1..Len(args) : VectorLike(args[i]))
          => res.err = "RectCastError"

\* C4's case: a union of a shape and a vector-like value raised RectCastError
C4_Witness ==
    /\ Called("from_union") /\ Len(args) = 2
    /\ HasShape(args[1]) /\ VectorLike(args[2])
    /\ res.err = "RectCastError"

\* the mutating operations of Rect
RectMutators ==
    {"displace", "__iadd__", "__isub__", "set_point", "align", "grow", "shrink",
     "set", "set_vertices"}
\* an operand that does not coerce, or lacks an attribute or an element
OperandErrors == {"VectorCastError", "RectCastError", "AttributeError", "IndexError"}

\* C10 as claimed: when a mutating operation of Rect raises because an
\* operand does not coerce or lacks an attribute or element, the receiver's
\* left, bottom, width and height are what they were before the call
C10_NoPartialRectMutation ==
    (pc = "done" /\ op.name \in RectMutators /\ res.err \in OperandErrors)
        => r = old.r

\* the Rect that an operand coerces to, where it coerces
AsRect(o) ==
    IF HasShape(o)
    THEN Rect(ShapeField(o, "left"), ShapeField(o, "bottom"),
              ShapeField(o, "width"), ShapeField(o, "height"))
    ELSE Rect(CoordX(o), CoordY(o), Whole(0), Whole(0))

\* the properties of a Rect that are computed, as the getters compute them,
\* for the Rect as constructed and as a call that changed it leaves it
DerivedFromFields ==
    (op = NoCall \/ r # old.r) =>
        /\ (IsNum(r.left) /\ IsNum(r.width)) =>
              /\ get_side(r, "right") = PyArith("add", r.left, r.width)
              /\ get_side(r, "center_x") =
                    ArithOf("add", Ok(r.left), PyArith("truediv", r.width, Whole(2)))
              /\ (r.left.t = "num" /\ r.width.t = "num") =>
                    get_side(r, "center_x").val
                        = Num(2 * r.left.n * r.width.d + r.width.n * r.left.d,
                              2 * r.left.d * r.width.d)
        /\ (IsNum(r.bottom) /\ IsNum(r.height)) =>
              /\ get_side(r, "top") = PyArith("add", r.bottom, r.height)
              /\ get_side(r, "center_y") =
                    ArithOf("add", Ok(r.bottom), PyArith("truediv", r.height, Whole(2)))
              /\ (r.bottom.t = "num" /\ r.height.t = "num") =>
                    get_side(r, "center_y").val
                        = Num(2 * r.bottom.n * r.height.d + r.height.n * r.bottom.d,
                              2 * r.bottom.d * r.height.d)

\* reading the outcome got gives the value c
Reads(got, c) == got.err = "" /\ PyEq(got.val, c)

\* after the last call, which set the side or point op.f, reading it gives
\* the value it was set to
ReadsWhatWasSet ==
    /\ (Called("set_side") /\ op.f \in Sides /\ res.err = "")
          => Reads(get_side(r, op.f), args[1].val)
    /\ (Called("set_point") /\ res.err = "")
          => /\ Reads(get_side(r, Horizontal(op.f)), CoordX(args[1]))
             /\ Reads(get_side(r, Vertical(op.f)), CoordY(args[1]))
    /\ (Called("align") /\ res.err = "")
          => Reads(get_side(r, op.f), get_side(AsRect(args[1]), op.f).val)

Offset(o, name) ==
    CASE name \in {"left", "bottom"} -> Ok(Whole(0))
      [] name = "right" -> Ok(o.width)
      [] name = "top" -> Ok(o.height)
      [] name = "center_x" -> PyArith("truediv", o.width, Whole(2))
      [] name = "center_y" -> PyArith("truediv", o.height, Whole(2))

\* (c - offset) + offset in the arithmetic of the numbers
ThereAndBack(o, name, c) ==
    IF name \in {"left", "bottom"} THEN Ok(c)
    ELSE ArithOf("add", ArithOf("sub", Ok(c), Offset(o, name)), Offset(o, name))

\* the numbers of the last call are exact: the fields of the receiver and
\* of the operand
ExactCall ==
    /\ \A f \in {"left", "bottom", "width", "height"} : old.r[f].t # "float"
    /\ old.v.x.t # "float" /\ old.v.y.t # "float"
    /\ Len(args) > 0
    /\ args[1].cls = "scalar" => args[1].val.t # "float"
    /\ args[1].cls \in {"Vector", "Rect"} =>
          \A f \in DOMAIN args[1] \ {"cls", "id"} : args[1][f].t # "float"

Resizing ==
    \/ op.name \in {"grow", "shrink", "set"}
    \/ op.name = "set_side" /\ op.f \in {"width", "height"}

\* C12: displace, +=, -=, the edge setters, the point setters, set_vertices
\* and align_* (every call but grow, shrink, set, set_width and set_height)
\* leave width and height unchanged, whether they return or raise; setting
\* left, center_x or right changes left only, and setting bottom, center_y or
\* top changes bottom only.
C12_PositionalMutatorsKeepSize ==
    /\ (pc = "done" /\ ~Resizing)
          => (r.width = old.r.width /\ r.height = old.r.height)
    /\ (Called("set_side") /\ op.f \in {"left", "center_x", "right"})
          => r.bottom = old.r.bottom
    /\ (Called("set_side") /\ op.f \in {"bottom", "center_y", "top"})
          => r.left = old.r.left

\* C12's case: right was set, left moved and the width stayed
C12_Witness ==
    /\ Called("set_side") /\ op.f = "right" /\ res.err = ""
    /\ r.left # old.r.left
    /\ r.width = old.r.width /\ r.width # Whole(0)

\* a <= b on two numbers
LessEq(a, b) == a.n * b.d <= b.n * a.d
\* a + b on two numbers
Plus(a, b) == Num(a.n * b.d + b.n * a.d, a.d * b.d)
\* the four fields are numbers
NumericRect(o) == IsNum(o.left) /\ IsNum(o.bottom) /\ IsNum(o.width) /\ IsNum(o.height)
\* the operand coerces to a rectangle whose fields are numbers
NumericOperand(o) == (HasShape(o) \/ Coercible(o)) /\ NumericRect(AsRect(o))
\* the right and the top edge
RightOf(o) == Plus(o.left, o.width)
TopOf(o) == Plus(o.bottom, o.height)
\* the closed boxes of a and b meet
Meet(a, b) ==
    /\ LessEq(a.left, RightOf(b)) /\ LessEq(b.left, RightOf(a))
    /\ LessEq(a.bottom, TopOf(b)) /\ LessEq(b.bottom, TopOf(a))

\* C13: a.touching(b) is True exactly when a.left <= b.right, a.right >=
\* b.left, a.bottom <= b.top and a.top >= b.bottom, for b the permissive
\* coercion of the operand (a point is a rectangle of no area), so sharing
\* only an edge or a corner is touching; a.outside(b) is the negation.
C13_TouchingIsClosedOverlap ==
    /\ (Called("touching") /\ NumericRect(r) /\ NumericOperand(args[1]))
          => res = Return(Bool(Meet(r, AsRect(args[1]))))
    /\ (Called("outside") /\ NumericRect(r) /\ NumericOperand(args[1]))
          => res = Return(Bool(~Meet(r, AsRect(args[1]))))

\* C13's case: two rectangles of some area that share one corner only touch
C13_Witness ==
    /\ Called("touching") /\ NumericRect(r) /\ args[1].cls = "Rect"
    /\ RightOf(r) = args[1].left /\ TopOf(r) = args[1].bottom
    /\ r.width # Whole(0) /\ r.height # Whole(0)
    /\ args[1].width # Whole(0) /\ args[1].height # Whole(0)
    /\ res = Return(Bool(TRUE))

\* the closed box of a holds the closed box of b
Holds(a, b) ==
    /\ LessEq(a.left, b.left) /\ LessEq(RightOf(b), RightOf(a))
    /\ LessEq(a.bottom, b.bottom) /\ LessEq(TopOf(b), TopOf(a))

\* C14: a.contains(b) is True exactly when a.left <= b.left, a.right >=
\* b.right, a.top >= b.top and a.bottom <= b.bottom (closed bounds: a
\* rectangle contains itself, and a point on its edge); b in a gives what
\* a.contains(b) gives; and for rectangles a and b, a.contains(b) is
\* b.inside(a).
C14_ContainsIsClosedInclusion ==
    /\ ((Called("contains") \/ Called("__contains__"))
            /\ NumericRect(r) /\ NumericOperand(args[1]))
          => res = Return(Bool(Holds(r, AsRect(args[1]))))
    /\ Called("__contains__") => res = contains(r, args[1])
    /\ (Called("contains") /\ args[1].cls = "Rect") => res = inside(args[1], r)
    /\ (Called("inside") /\ args[1].cls = "Rect") => res = contains(args[1], r)

\* C14's case: a rectangle of some area contains a rectangle equal to it
C14_Witness ==
    /\ Called("contains") /\ args[1].cls = "Rect"
    /\ AsRect(args[1]) = AsRect(r)
    /\ r.width # Whole(0) /\ r.height # Whole(0)
    /\ res = Return(Bool(TRUE))

\* C15 as claimed: r.inside(p) with a vector-like p does not raise; it
\* returns whether the closed bounds of r lie within the rectangle of no
\* area at p
C15_InsideIsPermissive ==
    (Called("inside") /\ VectorLike(args[1]) /\ NumericRect(r)
        /\ NumericRect(AsRect(args[1])))
        => res = Return(Bool(Holds(AsRect(args[1]), r)))

\* C15 as amended: Rect.inside uses the strict shape coercion: with a
\* vector-like operand (a Vector, a two-element tuple, an x/y object) it
\* raises RectCastError and leaves r unchanged; with a Rect or a shape it
\* returns whether the closed bounds of r lie within the operand's.
C15_InsideIsStrict ==
    /\ (Called("inside") /\ VectorLike(args[1]))
          => (res.err = "RectCastError" /\ r = old.r)
    /\ (Called("inside") /\ HasShape(args[1]) /\ NumericRect(r)
            /\ NumericRect(AsRect(args[1])))
          => res = Return(Bool(Holds(AsRect(args[1]), r)))

\* C15's case: inside was given a two-element tuple and raised RectCastError
C15_Witness ==
    /\ Called("inside") /\ IsPairSeq(args[1]) /\ ~HasShape(args[1])
    /\ res.err = "RectCastError"

\* C16: r.contains(r.bottom_left) and r.contains(r.top_right) are True for
\* every Rect r with numeric fields, whatever the sign of its width and height
C16_ContainsOwnCorners ==
    (Called("contains") /\ NumericRect(r) /\ args[1] \in Corners(r))
        => res = Return(Bool(TRUE))

\* the rectangles that the last union or intersection was made of
UnionInputs == IF op.name \in {"get_union", "get_intersection"} THEN <<r>> \o args ELSE args
\* the side of an operand, as its property reads
SideOf(o, name) == get_side(AsRect(o), name).val
\* the Rect a equals the operand b: Rect.__eq__
SameRect(a, b) ==
    \A f \in {"left", "bottom", "width", "height"} : PyEq(a[f], AsRect(b)[f])

\* C17: the union of rectangles or shapes with numeric fields has left =
\* min of the lefts, bottom = min of the bottoms, right = max of the rights
\* and top = max of the tops, contains every one of its inputs, and equals
\* its input when there is only one
C17_UnionContainsInputs ==
    LET inputs == UnionInputs
        Least(name) ==
            /\ \A i \in 1..Len(inputs) : LessEq(SideOf(res.val, name), SideOf(inputs[i], name))
            /\ \E i \in 1..Len(inputs) : PyEq(SideOf(res.val, name), SideOf(inputs[i], name))
        Greatest(name) ==
            /\ \A i \in 1..Len(inputs) : LessEq(SideOf(inputs[i], name), SideOf(res.val, name))
            /\ \E i \in 1..Len(inputs) : PyEq(SideOf(res.val, name), SideOf(inputs[i], name))
    IN  ((Called("from_union") \/ Called("get_union"))
            /\ \A i \in 1..Len(inputs) :
                    HasShape(inputs[i]) /\ NumericRect(AsRect(inputs[i])))
        => /\ res.err = "" /\ res.val.cls = "Rect"
           /\ Least("left") /\ Least("bottom") /\ Greatest("right") /\ Greatest("top")
           /\ \A i \in 1..Len(inputs) : contains(res.val, inputs[i]) = Return(Bool(TRUE))
           /\ Len(inputs) = 1 => SameRect(res.val, inputs[1])

\* the operand of the last call coerces to a vector of numbers
NumericVectorOperand ==
    Len(args) = 1 /\ Coercible(args[1]) /\ IsNum(CoordX(args[1])) /\ IsNum(CoordY(args[1]))
\* the last call was v + w, v += w, r += w on numbers
AddedForward == Called("_overload_left_side") /\ op.f = "add" /\ NumericVectorOperand /\ Numeric(old.v)
AddedInPlace == Called("_overload_in_place") /\ op.f = "add" /\ NumericVectorOperand /\ Numeric(old.v)
AddedToRect == Called("__iadd__") /\ NumericVectorOperand /\ NumericRect(old.r)
\* the outcome of subtracting the operand again after the last call
Difference ==
    IF AddedForward THEN overload_left_side("sub", ScalarOk("sub"), res.val, args[1])
    ELSE LET Stored(m) == [err |-> m.err, val |-> m.self]
         IN  Stored(overload_in_place("sub", ScalarOk("sub"), v, args[1]))
\* (a + b) - b in the arithmetic of the numbers
AddThenSub(a, b) == ArithOf("sub", PyArith("add", a, b), Ok(b))

\* r + w and r - w are new rectangles, r displaced by w and by -w
Displaced ==
    ((Called("__add__") \/ Called("__sub__")) /\ NumericVectorOperand /\ NumericRect(r))
        => LET w == IF Called("__add__") THEN Vector(CoordX(args[1]), CoordY(args[1]))
                    ELSE Vector_neg(Vector(CoordX(args[1]), CoordY(args[1]))).val
           IN  /\ res.err = "" /\ res.val.cls = "Rect" /\ res.val.id = NewId
               /\ res.val.left = PyArith("add", r.left, w.x).val
               /\ res.val.bottom = PyArith("add", r.bottom, w.y).val
               /\ res.val.width = r.width /\ res.val.height = r.height
               /\ r = old.r

\* after an addition, subtracting the operand gives the original value back
SubtractionUndoes ==
    /\ (AddedForward \/ AddedInPlace)
          => /\ res.err = "" /\ Difference.err = ""
             /\ Vector_eq(Difference.val, old.v) = Return(Bool(TRUE))
    /\ AddedToRect
          => /\ res.err = "" /\ Rect_isub(r, args).err = ""
             /\ SameRect(Rect_isub(r, args).self, old.r)

\* C18 as claimed: for a vector v and a vector-coercible w of numbers,
\* v + w - w == v, and after v += w; v -= w the vector has its original
\* coordinates; after r += w; r -= w the rectangle r equals its original
\* value, and r + w and r - w are r displaced by w and by -w.
C18_AddSubInverse == SubtractionUndoes /\ Displaced

\* C18 as amended: v + w - w and the sequence v += w; v -= w give the
\* coordinates (v.x + w.x) - w.x and (v.y + w.y) - w.y, r += w; r -= w the
\* edges (left + w.x) + (-w.x) and (bottom + w.y) + (-w.y) with the size
\* unchanged, each in the arithmetic of the numbers: the original value when
\* that arithmetic is exact; r + w and r - w are r displaced by w and by -w.
C18_AddSubRounded ==
    /\ Displaced
    /\ (AddedForward \/ AddedInPlace)
          => /\ res.err = ""
             /\ Difference.err = "" /\ Difference.val.cls = "Vector"
             /\ Ok(Difference.val.x) = AddThenSub(old.v.x, CoordX(args[1]))
             /\ Ok(Difference.val.y) = AddThenSub(old.v.y, CoordY(args[1]))
    /\ AddedToRect
          => LET back == Rect_isub(r, args).self
                 minus(a) == PyArith("sub", Whole(0), a)
             IN  /\ res.err = "" /\ Rect_isub(r, args).err = ""
                 /\ Ok(back.left) = ArithOf("add", PyArith("add", old.r.left, CoordX(args[1])),
                                            minus(CoordX(args[1])))
                 /\ Ok(back.bottom) = ArithOf("add", PyArith("add", old.r.bottom, CoordY(args[1])),
                                              minus(CoordY(args[1])))
                 /\ back.width = old.r.width /\ back.height = old.r.height
    /\ ExactCall => SubtractionUndoes

\* C18's case: a vector-coercible w was added to a Vector of floats, and
\* subtracting it again gives another vector
C18_Witness ==
    /\ AddedForward /\ res.err = "" /\ Difference.err = ""
    /\ Vector_eq(Difference.val, old.v) = Return(Bool(FALSE))

\* the null vector
IsNull(x, y) == IsNum(x) /\ IsNum(y) /\ x.n = 0 /\ y.n = 0
\* the operations on one vector that need its direction
DirectionOps ==
    {"normalize", "scale", "set_magnitude", "get_unit", "get_scaled", "get_orthonormal",
     "get_radians", "get_degrees"}

\* C19: on the null vector normalize, scale, set_magnitude, get_unit,
\* get_scaled, get_orthonormal, get_radians and get_degrees raise
\* NullVectorError, and so do get_radians_to and get_degrees_to when the
\* receiver or the operand (a value that coerces to a vector of numbers) is
\* null; the receiver is left as it was.
C19_NullVectorError ==
    /\ (pc = "done" /\ op.name \in DirectionOps /\ IsNull(old.v.x, old.v.y))
          => (res.err = "NullVectorError" /\ v = old.v)
    /\ ((Called("get_radians_to") \/ Called("get_degrees_to")) /\ NumericVectorOperand
            /\ Numeric(old.v)
            /\ (IsNull(old.v.x, old.v.y) \/ IsNull(CoordX(args[1]), CoordY(args[1]))))
          => (res.err = "NullVectorError" /\ v = old.v)

\* C19's case: the angle from a vector that is not null to a null operand
\* was asked for
C19_Witness ==
    /\ Called("get_degrees_to") /\ NumericVectorOperand
    /\ ~IsNull(old.v.x, old.v.y) /\ IsNull(CoordX(args[1]), CoordY(args[1]))
    /\ res.err = "NullVectorError"

----------------------------------------------------------------------------
(* The claim about copies, stated over SpecCopy *)

\* the receiver the copy was taken of, as it was when copied
Original == IF op.f = "Vector" THEN old.v ELSE old.r
\* an object of the same class with the same fields
SameValue(a, b) ==
    /\ a.cls = b.cls
    /\ \A f \in DOMAIN a \ {"id"} : a[f] = b[f]
\* copy returned another object than its receiver, with the receiver's value
CopyIsDistinctAndEqual ==
    Called("copy") =>
        /\ res.err = ""
        /\ res.val.id # Original.id
        /\ SameValue(res.val, Original)
        /\ IF op.f = "Vector" THEN Vector_eq(Original, res.val) = Return(Bool(TRUE))
           ELSE Rect_eq(Original, res.val) = Return(Bool(TRUE))
\* a call on one of the two leaves the other as it was
OtherIsLeftAlone ==
    (pc = "done" /\ old.kept # PyNone) => kept = old.kept

\* C20: copy() on a Vector or a Rect returns a distinct object equal to the
\* original, and the two are independent afterwards: an in-place operation
\* applied to the copy leaves the original with the value it had when copied,
\* and an in-place operation applied to the original leaves the copy with it.
C20_CopyIsIndependent == CopyIsDistinctAndEqual /\ OtherIsLeftAlone

\* an in-place operation changed the copy, or changed the original
C20_Witness ==
    /\ pc = "done" /\ old.kept # PyNone /\ res.err = ""
    /\ \/ kept.cls = "Vector" /\ ~SameValue(v, old.v)
       \/ kept.cls = "Rect" /\ ~SameValue(r, old.r)

----------------------------------------------------------------------------
(* The claim about returned objects, stated over SpecKeep *)

\* a and b are one and the same object
Is(a, b) == a.cls \in {"Vector", "Rect"} /\ a.cls = b.cls /\ a.id = b.id
\* the last call returned the object that the caller keeps
Made == pc = "done" /\ old.kept = PyNone /\ op # NoCall
\* the receiver that was passed to that call
Passed == IF res.val.cls = "Vector" THEN old.v ELSE old.r
\* the receiver the last call was made on, before and after it
Before == IF kept.cls = "Vector" THEN old.v ELSE old.r
After == IF kept.cls = "Vector" THEN v ELSE r
\* the calls that return what coercing their argument gave
Coercions == {"from_anything", "cast_shape_to_rectangle", "cast_anything_to_rectangle"}
\* the returned object is none of the objects that were passed
NewObject ==
    /\ res.val.id = NewId
    /\ ~Is(res.val, Passed)
    /\ \A i \in 1..Len(args) : ~Is(res.val, args[i])

\* C21 as claimed: every Vector or Rect returned by a factory, a getter, a
\* binary operator or a free function is an object other than its arguments,
\* so a call made on the returned object leaves the argument as it was, and
\* a call made on the argument leaves the returned object as it was.
C21_NeverAliased ==
    /\ Made => NewObject
    /\ (pc = "done" /\ old.kept # PyNone) => kept = old.kept

\* C21 as amended: a returned Vector or Rect is an object other than every
\* argument, except that coercing a Vector or a Rect gives the argument
\* itself: Vector.from_anything(v), cast_shape_to_rectangle(r) and
\* cast_anything_to_rectangle(r) return their argument, and the first and the
\* last element of interpolate(a, b, n) are a and b themselves when these are
\* Vectors.  A call on one of two distinct objects leaves the other as it
\* was; where the returned object is the argument, a change made through one
\* name is seen through the other.
C21_AliasedByCoercion ==
    /\ Made =>
          CASE op.name \in Coercions -> res.val = Passed
            [] op.name = "interpolate" /\ op.f = "first" /\ args[1].cls = "Vector" ->
                  res.val = args[1]
            [] op.name = "interpolate" /\ op.f = "last" /\ args[2].cls = "Vector" ->
                  res.val = args[2]
            [] OTHER -> NewObject
    /\ (pc = "done" /\ old.kept # PyNone) =>
          kept = IF Is(old.kept, Before) THEN After ELSE old.kept

\* C21's case: the returned object and the argument are one object, and a
\* call made on one of them changed what the other name reads
C21_Witness ==
    /\ pc = "done" /\ old.kept # PyNone /\ res.err = ""
    /\ Is(old.kept, Before)
    /\ kept # old.kept

----------------------------------------------------------------------------
(* The claim about grow and shrink, stated over SpecFloat *)

\* the last call was grow or shrink, with one or four paddings that are
\* numbers, on a Rect of numbers
Padded ==
    /\ Called("grow") \/ Called("shrink")
    /\ Len(args) \in {1, 4}
    /\ \A i \in 1..Len(args) : args[i].cls = "scalar" /\ IsNum(args[i].val)
    /\ NumericRect(old.r)
\* the padding of a side: 1 is left, 2 right, 3 top, 4 bottom
Pad(i) == IF Len(args) = 1 THEN args[1].val ELSE args[i].val
\* the Rect that has the fields of self moved and resized, by subtracting
\* (grow) or adding (shrink) on the edges and the converse on the sizes
Resized(self, edge, size) ==
    [left |-> PyArith(edge, self.left, Pad(1)),
     bottom |-> PyArith(edge, self.bottom, Pad(4)),
     width |-> ArithOf(size, Ok(self.width), PyArith("add", Pad(1), Pad(2))),
     height |-> ArithOf(size, Ok(self.height), PyArith("add", Pad(3), Pad(4)))]
\* the fields of a Rect, as outcomes
FieldsOf(self) ==
    [left |-> Ok(self.left), bottom |-> Ok(self.bottom),
     width |-> Ok(self.width), height |-> Ok(self.height)]
\* grow and shrink change the receiver by the paddings and return it
GrowsAndShrinks ==
    Padded =>
        /\ res.err = "" /\ res.val = r /\ r.id = old.r.id
        /\ FieldsOf(r) = IF Called("grow") THEN Resized(old.r, "sub", "add")
                         ELSE Resized(old.r, "add", "sub")
\* after a grow, shrinking by the same paddings gives the original back
ShrinkUndoesGrow ==
    (Padded /\ Called("grow")) =>
        /\ shrink(r, args).err = ""
        /\ SameRect(shrink(r, args).self, old.r)

\* C22 as claimed: grow and shrink take one padding p (used for all four
\* sides) or four paddings (l, r, t, b): grow changes the rectangle to
\* left - l, bottom - b, width + l + r, height + t + b and shrink to left + l,
\* bottom + b, width - l - r, height - t - b; both change the receiver and
\* return it; shrink does not clamp, so a size may become negative; and
\* shrink with the same paddings exactly undoes grow.
C22_ShrinkUndoesGrow == GrowsAndShrinks /\ ShrinkUndoesGrow

\* C22 as amended: the same, but shrink after grow gives the edges
\* (left - l) + l and (bottom - b) + b and the sizes (width + (l + r)) - (l + r)
\* and (height + (t + b)) - (t + b) in the arithmetic of the numbers: the
\* original rectangle when that arithmetic is exact.
C22_ShrinkUndoesGrowRounded ==
    /\ GrowsAndShrinks
    /\ (Padded /\ Called("grow")) =>
          /\ shrink(r, args).err = ""
          /\ FieldsOf(shrink(r, args).self) = Resized(r, "add", "sub")
    /\ ExactCall => ShrinkUndoesGrow

\* C22's case: a Rect of floats was grown, and shrinking it by the same
\* paddings gives another rectangle
C22_Witness ==
    /\ Padded /\ Called("grow") /\ res.err = ""
    /\ shrink(r, args).err = ""
    /\ ~SameRect(shrink(r, args).self, old.r)

----------------------------------------------------------------------------
(* The claim about division by zero, stated over SpecVector *)

\* the operand of the last call is the scalar 0, or coerces to a vector of
\* numbers with a zero coordinate
ZeroDivisor ==
    /\ Len(args) = 1
    /\ \/ args[1].cls = "scalar" /\ IsNum(args[1].val) /\ args[1].val.n = 0
       \/ /\ NumericVectorOperand
          /\ CoordX(args[1]).n = 0 \/ CoordY(args[1]).n = 0
\* the operand of the last call coerces to the null vector
NullAxis ==
    NumericVectorOperand /\ IsNull(CoordX(args[1]), CoordY(args[1]))

\* C23: on a vector v of numbers, v / d, v // d and v % d and their in-place
\* forms raise ZeroDivisionError, not VectorCastError, when d is the scalar 0
\* or coerces to a vector with a zero in either coordinate; get_projection,
\* get_components and project raise ZeroDivisionError when the axis is the
\* null vector; the receiver is left as it was.
C23_DivisionByZeroPropagates ==
    /\ ((Called("_overload_left_side") \/ Called("_overload_in_place"))
           /\ op.f \in {"truediv", "floordiv", "mod"} /\ Numeric(old.v) /\ ZeroDivisor)
          => (res.err = "ZeroDivisionError" /\ v = old.v)
    /\ ((Called("get_projection") \/ Called("get_components") \/ Called("project"))
           /\ Numeric(old.v) /\ NullAxis)
          => (res.err = "ZeroDivisionError" /\ v = old.v)

\* C23's case: a vector was divided by a tuple with a zero coordinate
C23_Witness ==
    /\ Called("_overload_left_side") /\ op.f = "truediv" /\ Numeric(old.v)
    /\ ZeroDivisor /\ args[1].cls = "object"
    /\ res.err = "ZeroDivisionError"

----------------------------------------------------------------------------
(* The claim about interpolation, stated over SpecFloat *)

\* the last call was interpolate or get_interpolated, on a vector of numbers,
\* with a target that coerces to a vector of numbers and a number as extent
Interpolating ==
    /\ Called("interpolate") \/ Called("get_interpolated")
    /\ Numeric(old.v)
    /\ Coercible(args[1]) /\ IsNum(CoordX(args[1])) /\ IsNum(CoordY(args[1]))
    /\ args[2].cls = "scalar" /\ IsNum(args[2].val)
\* a + t * (b - a) in the arithmetic of the numbers
Lerp(a, b, t) == ArithOf("add", Ok(a), ArithOf("mul", Ok(t), PyArith("sub", b, a)))
\* the vector the last call made: the receiver, or the returned vector
Moved == IF Called("interpolate") THEN v ELSE res.val
\* the receiver is replaced by, or the new vector is, v + t * (target - v)
MovesTowardsTarget ==
    Interpolating =>
        /\ res.err = ""
        /\ Ok(Moved.x) = Lerp(old.v.x, CoordX(args[1]), args[2].val)
        /\ Ok(Moved.y) = Lerp(old.v.y, CoordY(args[1]), args[2].val)
        /\ Called("interpolate") => (v.id = old.v.id /\ res.val = PyNone)
        /\ Called("get_interpolated") => (v = old.v /\ res.val.id = NewId)
\* the extent 0 leaves the vector where it is
StaysAtZero ==
    (Interpolating /\ args[2].val.n = 0)
        => (PyEq(Moved.x, old.v.x) /\ PyEq(Moved.y, old.v.y))
\* the extent 1 gives the target
ArrivesAtOne ==
    (Interpolating /\ args[2].val = Whole(1))
        => (PyEq(Moved.x, CoordX(args[1])) /\ PyEq(Moved.y, CoordY(args[1])))

\* C24 as claimed: v.interpolate(target, t) replaces v by
\* v + t * (target - v) for a target that coerces to a vector and a number t:
\* t = 0 leaves v unchanged, t = 1 makes v equal to the target, a t outside
\* [0, 1] extrapolates; get_interpolated(target, t) returns the same value in
\* a new vector and leaves v unchanged.
C24_InterpolateReachesTarget == MovesTowardsTarget /\ StaysAtZero /\ ArrivesAtOne

\* C24 as amended: the same, but t = 1 gives v + (target - v) in the
\* arithmetic of the numbers: the target when that arithmetic is exact.
C24_InterpolateRounded ==
    /\ MovesTowardsTarget
    /\ StaysAtZero
    /\ (Interpolating /\ args[2].val = Whole(1)) =>
          /\ Ok(Moved.x) = ArithOf("add", Ok(old.v.x), PyArith("sub", CoordX(args[1]), old.v.x))
          /\ Ok(Moved.y) = ArithOf("add", Ok(old.v.y), PyArith("sub", CoordY(args[1]), old.v.y))
    /\ ExactCall => ArrivesAtOne

\* C24's case: a vector of floats was interpolated with the extent 1, and
\* is not at the target
C24_Witness ==
    /\ Interpolating /\ Called("interpolate") /\ res.err = ""
    /\ args[2].val = Whole(1)
    /\ ~PyEq(v.x, CoordX(args[1]))

-----------------------------------------------------------------------------
(* Operations that only read, stated over SpecFloat *)

\* the operators, getters, comparisons and predicates that are to leave
\* their receiver as it is
NonMutating ==
    {"_overload_left_side", "_overload_right_side", "__neg__", "__abs__",
     "__add__", "__sub__", "__eq__", "__ne__", "__contains__",
     "get_unit", "get_orthonormal", "get_scaled", "get_interpolated",
     "get_projection", "get_components", "get_radians", "get_degrees",
     "get_radians_to", "get_degrees_to", "get_grown", "get_shrunk",
     "get_union", "get_intersection", "touching", "contains", "inside", "outside"}
\* the in-place operators of both classes
InPlaceOperators == {"_overload_in_place", "__iadd__", "__isub__"}
\* the receivers read after the call as they did before it
ReceiverUnchanged == v = old.v /\ r = old.r
\* an object of the caller that is one of the arguments reads as the
\* argument did when it was passed
OperandsUnchanged ==
    \A i \in DOMAIN args : \A o \in {v, r, res.val} : Is(o, args[i]) => o = args[i]

-----------------------------------------------------------------------------
(* The two rectangles of a predicate exchanged, stated over SpecFloat *)

\* b.touching(a) and b.outside(a) for the call a.touching(b) or a.outside(b)
\* that was made, b the rectangle the operand coerces to
Exchanged ==
    IF op.name = "touching" THEN touching(AsRect(args[1]), old.r)
    ELSE outside(AsRect(args[1]), old.r)

\* C26: a.touching(b) and b.touching(a) give the same answer, and so do
\* a.outside(b) and b.outside(a), for rectangles and shapes whose fields
\* are numbers, of any sign of width and height.
C26_TouchingIsSymmetric ==
    ((Called("touching") \/ Called("outside"))
        /\ NumericRect(old.r) /\ NumericOperand(args[1]))
      => res = Exchanged

\* C26's case: a rectangle of negative width and another rectangle touch,
\* whichever of them is asked
C26_Witness ==
    /\ Called("touching")
    /\ IsNum(old.r.width) /\ old.r.width.n < 0
    /\ args[1].cls = "Rect"
    /\ res = Return(Bool(TRUE))
    /\ touching(args[1], old.r) = Return(Bool(TRUE))

-----------------------------------------------------------------------------
(* The intersection of two rectangles, stated over SpecFloat *)

\* the last call intersected two rectangles or shapes whose fields are
\* numbers and whose width and height are not negative
Intersected ==
    /\ Called("from_intersection") \/ Called("get_intersection")
    /\ Len(UnionInputs) = 2
    /\ \A i \in 1..2 :
          /\ HasShape(UnionInputs[i])
          /\ NumericRect(AsRect(UnionInputs[i]))
          /\ AsRect(UnionInputs[i]).width.n >= 0
          /\ AsRect(UnionInputs[i]).height.n >= 0

\* C27: the intersection of two rectangles a and b of non-negative width
\* and height is returned whether they overlap or not; its left is the max
\* of the lefts, its bottom the max of the bottoms, its right the min of the
\* rights and its top the min of the tops; a and b each contain it; and
\* a.touching(b) is True exactly when its width and height are both >= 0.
C27_IntersectionIsOverlap ==
    LET a == AsRect(UnionInputs[1])
        b == AsRect(UnionInputs[2])
        Greater(x, y) == IF LessEq(x, y) THEN y ELSE x
        Less(x, y) == IF LessEq(x, y) THEN x ELSE y
        Side(o, name) == get_side(o, name).val
    IN  Intersected =>
            /\ res.err = "" /\ res.val.cls = "Rect"
            /\ PyEq(Side(res.val, "left"), Greater(Side(a, "left"), Side(b, "left")))
            /\ PyEq(Side(res.val, "bottom"), Greater(Side(a, "bottom"), Side(b, "bottom")))
            /\ PyEq(Side(res.val, "right"), Less(Side(a, "right"), Side(b, "right")))
            /\ PyEq(Side(res.val, "top"), Less(Side(a, "top"), Side(b, "top")))
            /\ contains(a, res.val) = Return(Bool(TRUE))
            /\ contains(b, res.val) = Return(Bool(TRUE))
            /\ touching(a, b) =
                  Return(Bool(res.val.width.n >= 0 /\ res.val.height.n >= 0))

-----------------------------------------------------------------------------
(* The free function interpolate, stated over SpecVector *)

\* the last call was interpolate(a, b, num_points) with a and b that coerce
\* to vectors of numbers and an integer num_points
FreeInterpolated ==
    /\ Called("vecrec.interpolate")
    /\ \A i \in 1..2 :
          Coercible(args[i]) /\ IsNum(CoordX(args[i])) /\ IsNum(CoordY(args[i]))
    /\ args[3].cls = "scalar" /\ args[3].val.t = "num" /\ args[3].val.d = 1

\* C28: interpolate(a, b, num_points) returns for every num_points >= 1 a
\* list of exactly num_points vectors, the first equal to a and the last
\* equal to b, the element i (from 0) equal to
\* a + (i / (num_points - 1)) * (b - a) when num_points >= 2, for any a and b
\* that coerce to vectors; it raises only for num_points < 1.
C28_InterpolateGivesNumPoints ==
    LET n == args[3].val.n
        items == res.val.items
        SameAs(w, o) == w.cls = "Vector" /\ PyEq(w.x, CoordX(o)) /\ PyEq(w.y, CoordY(o))
        Along(c, a, b, i) ==
            LET Go(p) == p.err = "" /\ PyEq(c, p.val)
            IN  Go(Lerp(a, b, PyArith("truediv", Whole(i), Whole(n - 1)).val))
        At(i) ==
            /\ Along(items[i + 1].x, CoordX(args[1]), CoordX(args[2]), i)
            /\ Along(items[i + 1].y, CoordY(args[1]), CoordY(args[2]), i)
    IN  FreeInterpolated =>
            /\ n < 1 => res.err # ""
            /\ n >= 1 =>
                  /\ res.err = "" /\ res.val.cls = "list"
                  /\ Len(items) = n
                  /\ SameAs(items[1], args[1])
                  /\ SameAs(items[n], args[2])
                  /\ n >= 2 => \A i \in 0..(n - 1) : At(i)

====
